---------------------------- MODULE Spec2Model ----------------------------
(***************************************************************************)
(* RepoInsightAI: the repository materializer (src/git_utils.py), the     *)
(* index cache (src/index_builder.py), the file classifier and the two    *)
(* document synthesizers (src/doc_generator.py) and the session handlers  *)
(* of the Streamlit front end (main.py).                                   *)
(*                                                                         *)
(* Python strings on which the code computes (file names, paths, URLs)    *)
(* are sequences of one-character strings, so that endswith, splitext,    *)
(* the substring test `d in root` and split are computed, not assumed.    *)
(***************************************************************************)
EXTENDS Integers, Sequences, FiniteSets, TLC

---------------------------------------------------------------------------
(* Python string primitives used by the code.                              *)

\* str.endswith(suffix)
EndsWith(s, suffix) ==
    /\ Len(s) >= Len(suffix)
    /\ SubSeq(s, Len(s) - Len(suffix) + 1, Len(s)) = suffix

\* str.startswith(prefix)
StartsWith(s, prefix) ==
    /\ Len(s) >= Len(prefix)
    /\ SubSeq(s, 1, Len(prefix)) = prefix

\* `sub in s` on two strings: sub occurs in s as a contiguous substring
StrContains(s, sub) ==
    \E i \in 1..(Len(s) - Len(sub) + 1) : SubSeq(s, i, i + Len(sub) - 1) = sub

\* str.rfind(c) for a one-character c, 1-based; 0 when c does not occur
RFind(s, c) ==
    LET hits == {i \in 1..Len(s) : s[i] = c}
    IN  IF hits = {} THEN 0 ELSE CHOOSE i \in hits : \A j \in hits : j <= i

\* str.find(c) for a one-character c, 1-based; 0 when c does not occur
Find(s, c) ==
    LET hits == {i \in 1..Len(s) : s[i] = c}
    IN  IF hits = {} THEN 0 ELSE CHOOSE i \in hits : \A j \in hits : i <= j

\* os.path.splitext(p)[1]: the text from the last dot of the last path
\* component, unless that component has only dots before it (".env" -> "")
SplitExt(p) ==
    LET sepIndex == RFind(p, "/")
        dotIndex == RFind(p, ".")
    IN  IF /\ dotIndex > sepIndex
           /\ \E k \in (sepIndex + 1)..(dotIndex - 1) : p[k] # "."
        THEN SubSeq(p, dotIndex, Len(p))
        ELSE << >>

\* os.path.join(a, b) on POSIX paths
PathJoin(a, b) ==
    IF StartsWith(b, <<"/">>) THEN b
    ELSE IF a = << >> \/ EndsWith(a, <<"/">>) THEN a \o b
    ELSE a \o <<"/">> \o b

\* os.path.basename(p)
BaseName(p) == SubSeq(p, RFind(p, "/") + 1, Len(p))

\* the members of a Python list, given as a sequence
Members(list) == {list[i] : i \in DOMAIN list}

---------------------------------------------------------------------------
(* src/language_utils.py                                                   *)

EXTENSION_TO_LANGUAGE_MAP ==
    {
      <<<<".", "j", "s">>, "javascript">>,
      <<<<".", "j", "s", "x">>, "javascript">>,
      <<<<".", "t", "s">>, "typescript">>,
      <<<<".", "t", "s", "x">>, "typescript">>,
      <<<<".", "h", "t", "m", "l">>, "html">>,
      <<<<".", "h", "t", "m">>, "html">>,
      <<<<".", "c", "s", "s">>, "css">>,
      <<<<".", "s", "c", "s", "s">>, "scss">>,
      <<<<".", "l", "e", "s", "s">>, "less">>,
      <<<<".", "p", "y">>, "python">>,
      <<<<".", "j", "a", "v", "a">>, "java">>,
      <<<<".", "p", "h", "p">>, "php">>,
      <<<<".", "r", "b">>, "ruby">>,
      <<<<".", "g", "o">>, "go">>,
      <<<<".", "r", "s">>, "rust">>,
      <<<<".", "c", "s">>, "c_sharp">>,
      <<<<".", "k", "t">>, "kotlin">>,
      <<<<".", "k", "t", "s">>, "kotlin">>,
      <<<<".", "s", "c", "a", "l", "a">>, "scala">>,
      <<<<".", "s", "w", "i", "f", "t">>, "swift">>,
      <<<<".", "m">>, "objc">>,
      <<<<".", "p", "l">>, "perl">>,
      <<<<".", "l", "u", "a">>, "lua">>,
      <<<<".", "e", "x">>, "elixir">>,
      <<<<".", "e", "x", "s">>, "elixir">>,
      <<<<".", "d", "a", "r", "t">>, "dart">>,
      <<<<".", "e", "r", "l">>, "erlang">>,
      <<<<".", "h", "r", "l">>, "erlang">>,
      <<<<".", "c">>, "c">>,
      <<<<".", "h">>, "c">>,
      <<<<".", "c", "p", "p">>, "cpp">>,
      <<<<".", "h", "p", "p">>, "cpp">>,
      <<<<".", "c", "c">>, "cpp">>,
      <<<<".", "c", "x", "x">>, "cpp">>,
      <<<<".", "h", "h">>, "cpp">>,
      <<<<".", "h", "x", "x">>, "cpp">>,
      <<<<".", "j", "s", "o", "n">>, "json">>,
      <<<<".", "y", "a", "m", "l">>, "yaml">>,
      <<<<".", "y", "m", "l">>, "yaml">>,
      <<<<".", "t", "o", "m", "l">>, "toml">>,
      <<<<".", "x", "m", "l">>, "html">>,
      <<<<".", "s", "q", "l">>, "sql">>,
      <<<<".", "c", "s", "v">>, "python">>,
      <<<<".", "s", "h">>, "bash">>,
      <<<<".", "b", "a", "s", "h">>, "bash">>,
      <<<<".", "z", "s", "h">>, "bash">>,
      <<<<"D", "o", "c", "k", "e", "r", "f", "i", "l", "e">>, "dockerfile">>,
      <<<<".", "t", "f">>, "terraform">>,
      <<<<".", "h", "c", "l">>, "terraform">>,
      <<<<".", "g", "r", "o", "o", "v", "y">>, "java">>,
      <<<<".", "j", "e", "n", "k", "i", "n", "s", "f", "i", "l", "e">>, "java">>,
      <<<<".", "m", "d">>, "markdown">>,
      <<<<".", "r", "s", "t">>, "markdown">>,
      <<<<".", "t", "e", "x">>, "latex">>,
      <<<<".", "h", "s">>, "haskell">>,
      <<<<".", "f", "s">>, "f_sharp">>,
      <<<<".", "f", "s", "i">>, "f_sharp">>,
      <<<<".", "m", "l">>, "ocaml">>,
      <<<<".", "m", "l", "i">>, "ocaml">>,
      <<<<".", "v", "u", "e">>, "vue">>,
      <<<<".", "s", "v", "e", "l", "t", "e">>, "svelte">>,
      <<<<".", "r", "e", "s">>, "rescript">>
    }

\* `extension in EXTENSION_TO_LANGUAGE_MAP` (a dict's keys)
InLanguageMap(extension) == \E e \in EXTENSION_TO_LANGUAGE_MAP : e[1] = extension

\* EXTENSION_TO_LANGUAGE_MAP[extension]
LanguageOf(extension) ==
    (CHOOSE e \in EXTENSION_TO_LANGUAGE_MAP : e[1] = extension)[2]

---------------------------------------------------------------------------
(* The file system under a repository's local path.                        *)

\* the cap of line 65: unclassified files of this size or more are left out
OtherSizeCap == 1000000

\* the most files a modelled repository holds
MaxFiles == 2

\* directories that hold files, as component lists below the repository
\* root: the root and a plain subdirectory, where every kind of file occurs
PlainDirs == { << >>, <<<<"s", "r", "c">>>> }

\* directories below a skipped name, or with a name close to a skipped one
OtherDirs ==
    { <<<<".", "g", "i", "t">>, <<"h", "o", "o", "k", "s">>>>,
      <<<<"n", "o", "d", "e", "_", "m", "o", "d", "u", "l", "e", "s">>, <<"p", "k", "g">>>>,
      <<<<"s", "r", "c">>, <<"b", "u", "i", "l", "d">>, <<"o", "u", "t">>>>,
      <<<<"t", "a", "r", "g", "e", "t">>>>,
      <<<<"d", "i", "s", "t">>>>,
      <<<<"_", "_", "p", "y", "c", "a", "c", "h", "e", "_", "_">>>>,
      <<<<".", "g", "i", "t", "h", "u", "b">>>>,
      <<<<"r", "e", "b", "u", "i", "l", "d">>>> }

FileDirs == PlainDirs \cup OtherDirs

\* every directory os.walk can yield, in the order it yields them (top-down)
DirUniverse ==
    << << >>,
       <<<<".", "g", "i", "t">>>>,
       <<<<".", "g", "i", "t">>, <<"h", "o", "o", "k", "s">>>>,
       <<<<".", "g", "i", "t", "h", "u", "b">>>>,
       <<<<"_", "_", "p", "y", "c", "a", "c", "h", "e", "_", "_">>>>,
       <<<<"d", "i", "s", "t">>>>,
       <<<<"n", "o", "d", "e", "_", "m", "o", "d", "u", "l", "e", "s">>>>,
       <<<<"n", "o", "d", "e", "_", "m", "o", "d", "u", "l", "e", "s">>, <<"p", "k", "g">>>>,
       <<<<"r", "e", "b", "u", "i", "l", "d">>>>,
       <<<<"s", "r", "c">>>>,
       <<<<"s", "r", "c">>, <<"b", "u", "i", "l", "d">>>>,
       <<<<"s", "r", "c">>, <<"b", "u", "i", "l", "d">>, <<"o", "u", "t">>>>,
       <<<<"t", "a", "r", "g", "e", "t">>>> >>

\* file names, in the order a directory lists them
NameUniverse ==
    << <<"R", "E", "A", "D", "M", "E", ".", "m", "d">>,
       <<"g", "u", "i", "d", "e", ".", "r", "s", "t">>,
       <<"a", "p", "p", ".", "p", "y">>,
       <<"m", "a", "i", "n", ".", "g", "o">>,
       <<"c", "o", "n", "f", "i", "g", ".", "y", "a", "m", "l">>,
       <<"p", "a", "c", "k", "a", "g", "e", ".", "j", "s", "o", "n">>,
       <<"D", "o", "c", "k", "e", "r", "f", "i", "l", "e">>,
       <<"d", "a", "t", "a", ".", "b", "i", "n">> >>

\* a file: its directory below the root, its name, and what os.path.getsize
\* gives for it (stat_ok = FALSE: it raises OSError)
FileUniverse ==
    {[dir |-> d, name |-> n, size |-> z[1], stat_ok |-> z[2]] :
        d \in FileDirs, n \in Members(NameUniverse),
        z \in {<<OtherSizeCap - 1, TRUE>>, <<OtherSizeCap, TRUE>>,
                <<OtherSizeCap, FALSE>>}}

\* the files a modelled repository is made of: only a file that reaches the
\* size test of line 65 is given more than one size, and the directories of
\* OtherDirs hold a documentation file or a source file
FileChoices ==
    {e \in FileUniverse :
        /\ e.name # <<"d", "a", "t", "a", ".", "b", "i", "n">> => (e.size = OtherSizeCap - 1 /\ e.stat_ok)
        /\ e.dir \in OtherDirs => e.name \in {<<"R", "E", "A", "D", "M", "E", ".", "m", "d">>, <<"a", "p", "p", ".", "p", "y">>}}

RECURSIVE FileSystemsUpTo(_)
\* the file systems of at most k files
FileSystemsUpTo(k) ==
    IF k = 0 THEN {{}}
    ELSE LET prev == FileSystemsUpTo(k - 1)
         IN  prev \cup {s \cup {e} : s \in prev, e \in FileChoices}

OneSizePerFile(s) ==
    \A e1, e2 \in s : (e1.dir = e2.dir /\ e1.name = e2.name) => e1 = e2

\* the local paths a repository can have: REPOS_DIR + "/" + repo_name
RepoPaths == { <<"r", "e", "p", "o", "s", "/", "a", "p", "p">>, <<"r", "e", "p", "o", "s", "/", "r", "e", "b", "u", "i", "l", "d">> }

---------------------------------------------------------------------------
(* Optional values: Python's None and a present value.                     *)

None == << >>
Some(x) == <<x>>
Value(o) == o[1]

---------------------------------------------------------------------------
(* src/doc_generator.py, generate_quick_start: the classification.         *)

doc_files ==
    << <<"R", "E", "A", "D", "M", "E", ".", "m", "d">>, <<"C", "O", "N", "T", "R", "I", "B", "U", "T", "I", "N", "G", ".", "m", "d">>, <<"C", "H", "A", "N", "G", "E", "L", "O", "G", ".", "m", "d">>, <<".", "m", "d">>, <<".", "r", "s", "t">> >>

config_files ==
    << <<"r", "e", "q", "u", "i", "r", "e", "m", "e", "n", "t", "s", ".", "t", "x", "t">>, <<"p", "a", "c", "k", "a", "g", "e", ".", "j", "s", "o", "n">>, <<"D", "o", "c", "k", "e", "r", "f", "i", "l", "e">>, <<".", "e", "n", "v">>,
       <<".", "y", "a", "m", "l">>, <<".", "y", "m", "l">>, <<".", "t", "o", "m", "l">>, <<".", "i", "n", "i">>, <<".", "c", "f", "g">> >>

GuideSkippedDirs ==
    << <<".", "g", "i", "t">>, <<"_", "_", "p", "y", "c", "a", "c", "h", "e", "_", "_">>, <<"n", "o", "d", "e", "_", "m", "o", "d", "u", "l", "e", "s">>, <<"t", "a", "r", "g", "e", "t">>, <<"b", "u", "i", "l", "d">>,
       <<"d", "i", "s", "t">> >>

ApiSkippedDirs ==
    << <<".", "g", "i", "t">>, <<"n", "o", "d", "e", "_", "m", "o", "d", "u", "l", "e", "s">>, <<"t", "a", "r", "g", "e", "t">>, <<"b", "u", "i", "l", "d">>, <<"d", "i", "s", "t">> >>

\* file in list or any(file.endswith(ext) for ext in list if ext.startswith('.'))
MatchesList(file, list) ==
    \/ file \in Members(list)
    \/ \E i \in DOMAIN list :
          StartsWith(list[i], <<".">>) /\ EndsWith(file, list[i])

\* a slip the claims must notice: only the directory's own name is tested
RootNameIsSkipped(root, skipped) == BaseName(root) \in Members(skipped)

\* any(d in root for d in skipped): a substring test on the whole root path
RootIsSkipped(root, skipped) ==
    \E i \in DOMAIN skipped : StrContains(root, skipped[i])

RECURSIVE WalkRoot(_, _)
\* the root os.walk reports for the directory `dir` below top
WalkRoot(top, dir) ==
    IF dir = << >> THEN top
    ELSE PathJoin(WalkRoot(top, SubSeq(dir, 1, Len(dir) - 1)), dir[Len(dir)])

\* a slip the claims must notice: the language table is consulted first
CategoryLanguageFirst(file, size, stat_ok) ==
    LET extension == SplitExt(file)
    IN  IF InLanguageMap(extension)
        THEN <<"Source Code", LanguageOf(extension)>>
        ELSE IF MatchesList(file, doc_files) THEN <<"Documentation">>
        ELSE IF MatchesList(file, config_files) THEN <<"Configuration">>
        ELSE IF stat_ok /\ size < OtherSizeCap THEN <<"Other">>
        ELSE <<"dropped">>

\* a slip the claims must notice: the size test admits the cap itself
CategoryCapInclusive(file, size, stat_ok) ==
    LET extension == SplitExt(file)
    IN  IF MatchesList(file, doc_files) THEN <<"Documentation">>
        ELSE IF MatchesList(file, config_files) THEN <<"Configuration">>
        ELSE IF InLanguageMap(extension)
        THEN <<"Source Code", LanguageOf(extension)>>
        ELSE IF stat_ok /\ size <= OtherSizeCap THEN <<"Other">>
        ELSE <<"dropped">>

\* a slip the claims must notice: the table is asked for the file name, not
\* for its extension
CategoryLookupByName(file, size, stat_ok) ==
    IF MatchesList(file, doc_files) THEN <<"Documentation">>
    ELSE IF MatchesList(file, config_files) THEN <<"Configuration">>
    ELSE IF InLanguageMap(file) THEN <<"Source Code", LanguageOf(file)>>
    ELSE IF stat_ok /\ size < OtherSizeCap THEN <<"Other">>
    ELSE <<"dropped">>

\* the if/elif chain of lines 56-68: the category a visited file is given
\* (os.path.getsize raising OSError leaves the file out, lines 67-68)
Category(file, size, stat_ok) ==
    LET extension == SplitExt(file)
    IN  IF MatchesList(file, doc_files) THEN <<"Documentation">>
        ELSE IF MatchesList(file, config_files) THEN <<"Configuration">>
        ELSE IF InLanguageMap(extension)
        THEN <<"Source Code", LanguageOf(extension)>>
        ELSE IF stat_ok /\ size < OtherSizeCap THEN <<"Other">>
        ELSE <<"dropped">>

EmptyCategories ==
    [Documentation |-> << >>, Configuration |-> << >>,
     SourceCode |-> << >>, Other |-> << >>]

\* categorized_files[...].append(file_path); Source Code is a
\* defaultdict(list), kept as the list of its (language, paths) items
AddToCategory(cat, c, file_path) ==
    CASE c[1] = "Documentation" ->
           [cat EXCEPT !.Documentation = Append(@, file_path)]
      [] c[1] = "Configuration" ->
           [cat EXCEPT !.Configuration = Append(@, file_path)]
      [] c[1] = "Source Code" ->
           IF \E i \in DOMAIN cat.SourceCode : cat.SourceCode[i].lang = c[2]
           THEN [cat EXCEPT !.SourceCode =
                    [i \in DOMAIN @ |->
                        IF @[i].lang = c[2]
                        THEN [@[i] EXCEPT !.files = Append(@, file_path)]
                        ELSE @[i]]]
           ELSE [cat EXCEPT !.SourceCode =
                    Append(@, [lang |-> c[2], files |-> <<file_path>>])]
      [] c[1] = "Other" ->
           [cat EXCEPT !.Other = Append(@, file_path)]
      [] OTHER -> cat

\* the files of directory dir, in listing order
FilesOf(files, dir) ==
    LET here(n) == \E e \in files : e.dir = dir /\ e.name = n
        entry(n) == CHOOSE e \in files : e.dir = dir /\ e.name = n
        names == SelectSeq(NameUniverse, here)
    IN  [i \in DOMAIN names |-> entry(names[i])]

\* the directories of a file system: the root, every directory holding a
\* file and every directory above one, in os.walk's order
DirsOf(files) ==
    LET exists(d) ==
            \/ d = << >>
            \/ \E e \in files :
                  Len(e.dir) >= Len(d) /\ SubSeq(e.dir, 1, Len(d)) = d
    IN  SelectSeq(DirUniverse, exists)

RECURSIVE ClassifyFiles(_, _, _)
\* the inner loop, lines 52-68
ClassifyFiles(cat, root, list) ==
    IF list = << >> THEN cat
    ELSE LET e == Head(list)
         IN  ClassifyFiles(
                 AddToCategory(cat, Category(e.name, e.size, e.stat_ok),
                               PathJoin(root, e.name)),
                 root, Tail(list))

RECURSIVE GuideWalk(_, _, _, _)
\* the outer loop, lines 49-51
GuideWalk(cat, top, files, dirs) ==
    IF dirs = << >> THEN cat
    ELSE LET root == WalkRoot(top, Head(dirs))
         IN  IF RootIsSkipped(root, GuideSkippedDirs)
             THEN GuideWalk(cat, top, files, Tail(dirs))
             ELSE GuideWalk(ClassifyFiles(cat, root, FilesOf(files, Head(dirs))),
                            top, files, Tail(dirs))

\* categorized_files after the walk of lines 41-68
Classify(top, files) == GuideWalk(EmptyCategories, top, files, DirsOf(files))

---------------------------------------------------------------------------
(* src/doc_generator.py, generate_api_docs: the source file list.          *)

RECURSIVE ListSources(_, _, _)
\* the inner loop, lines 198-200
ListSources(acc, root, list) ==
    IF list = << >> THEN acc
    ELSE LET e == Head(list)
         IN  ListSources(
                 IF InLanguageMap(SplitExt(e.name))
                 THEN Append(acc, PathJoin(root, e.name)) ELSE acc,
                 root, Tail(list))

RECURSIVE ApiWalk(_, _, _, _)
\* the outer loop, lines 195-197
ApiWalk(acc, top, files, dirs) ==
    IF dirs = << >> THEN acc
    ELSE LET root == WalkRoot(top, Head(dirs))
         IN  IF RootIsSkipped(root, ApiSkippedDirs)
             THEN ApiWalk(acc, top, files, Tail(dirs))
             ELSE ApiWalk(ListSources(acc, root, FilesOf(files, Head(dirs))),
                          top, files, Tail(dirs))

\* source_files after the walk of lines 193-200
SourceFiles(top, files) == ApiWalk(<< >>, top, files, DirsOf(files))

---------------------------------------------------------------------------
(* State.                                                                  *)

\* browser sessions of the Streamlit application; each runs its script in
\* its own thread of the one server process
Sessions == {"s1", "s2"}

VARIABLES
    active,     \* the sessions that are open
    repos_dir,  \* whether the directory REPOS_DIR exists
    local,      \* the repositories cloned below REPOS_DIR, by directory name
    storage,    \* the index entries persisted below STORAGE_DIR, by name
    fs,         \* the files below the walked repository directory
    ss,         \* st.session_state of each session (main.py lines 46-59)
    pc,         \* where each session's script run stands
    an,         \* locals of each session's Analyze click and of its
                \* clone_or_pull_repo call
    ix,         \* locals of each session's get_or_create_index call
    qs,         \* locals of each session's generate_quick_start call
    ad,         \* locals of each session's generate_api_docs call
    tabs        \* what each session's document tabs show (main.py 212-243)

vars == <<active, repos_dir, local, storage, fs, ss, pc, an, ix, qs, ad, tabs>>

\* what the document handlers leave alone
analysisVars == <<repos_dir, local, storage, an, ix, tabs>>

\* what the Analyze handler leaves alone
documentVars == <<fs, qs, ad, tabs>>

\* main.py line 190: shown while no repository has been analyzed
WelcomeMessage == [role |-> "assistant", content |-> <<"hello">>]

\* st.session_state once the script has run for the first time
FreshSession ==
    [messages |-> <<WelcomeMessage>>, chat_engine |-> None,
     query_engine |-> None, repo_path |-> None, quick_start_guide |-> None,
     api_docs |-> None, file_tree |-> None]

\* main.py line 144
ReadyMessage(repo_path) ==
    [role |-> "assistant", content |-> <<"ready", BaseName(repo_path)>>]

\* create_query_router(vector_index, nodes): a router over one index
QueryRouter(index) == [router_over |-> index]

\* OpenAIAgent.from_tools over the router tool (main.py lines 100-139)
Agent(query_engine) == [agent_over |-> query_engine]

\* st.session_state after an analysis of the repository at repo_path ran
\* to the end (main.py lines 85-146) on the index `index`
AnalyzedSession(repo_path, index) ==
    [FreshSession EXCEPT
        !.messages = <<ReadyMessage(repo_path)>>,
        !.repo_path = Some(repo_path),
        !.query_engine = Some(QueryRouter(index)),
        !.chat_engine = Some(Agent(QueryRouter(index)))]

\* the locals of a generate_quick_start call that has not started; llm_calls
\* and queries record the calls made on the model and on the router, and
\* raised what left the call as an exception
NoQuickStart ==
    [repo_path |-> None, categorized |-> EmptyCategories, llm_calls |-> << >>,
     key_files |-> << >>, queries |-> << >>, outcomes |-> << >>,
     summaries |-> << >>, result |-> None, raised |-> None]

\* the locals of a generate_api_docs call that has not started; reads
\* records the files opened, raised what left the call as an exception, and
\* api_docs_before the session's api_docs at the click
NoApiDocs ==
    [repo_path |-> None, source_files |-> << >>, reads |-> << >>,
     api_docs_str_list |-> << >>, result |-> None, raised |-> None,
     api_docs_before |-> None]

\* the tabs of a session before they were first drawn
NoTabs == [file_tree |-> None, quick_start |-> None, api_docs |-> None]

---------------------------------------------------------------------------
(* main.py lines 164-166 and doc_generator.py lines 41-81: the click on    *)
(* "Generate Quick Start Guide" up to the classified file list.            *)

GuideClassify(s) ==
    /\ s \in active
    /\ pc[s] = "idle"
    /\ ss[s].chat_engine # None
    /\ ss[s].repo_path # None
    /\ qs' = [qs EXCEPT ![s] =
                [NoQuickStart EXCEPT
                    !.repo_path = ss[s].repo_path,
                    !.categorized = Classify(Value(ss[s].repo_path), fs)]]
    /\ pc' = [pc EXCEPT ![s] = "qs_select"]
    /\ UNCHANGED <<active, fs, ss, ad, analysisVars>>

---------------------------------------------------------------------------
(* src/git_utils.py: clone_or_pull_repo.                                   *)

\* the environment's REPOS_DIR and STORAGE_DIR
REPOS_DIR == <<"r", "e", "p", "o", "s">>
STORAGE_DIR == <<"s", "t", "o", "r", "a", "g", "e">>

\* the newest revision a modelled remote reaches
MaxRev == 1

\* the URLs typed into the text input of main.py line 71
UrlUniverse ==
    { << >>,
      <<"h", "t", "t", "p", "s", ":", "/", "/", "g", "i", "t", "h", "u", "b", ".", "c", "o", "m", "/", "u", "/", "a", "p", "p">>,
      <<"h", "t", "t", "p", "s", ":", "/", "/", "g", "i", "t", "h", "u", "b", ".", "c", "o", "m", "/", "u", "/", "a", "p", "p", ".", "g", "i", "t">>,
      <<"h", "t", "t", "p", "s", ":", "/", "/", "g", "i", "t", "h", "u", "b", ".", "c", "o", "m", "/", "u", "/", "m", "y", ".", "r", "e", "p", "o", ".", "g", "i", "t">>,
      <<"h", "t", "t", "p", "s", ":", "/", "/", "g", "i", "t", "h", "u", "b", ".", "c", "o", "m", "/", "u", "/", "a", "p", "p", "/">>,
      <<"h", "t", "t", "p", "s", ":", "/", "/", "g", "i", "t", "h", "u", "b", ".", "c", "o", "m", ".", "e", "v", "i", "l", ".", "i", "o", "/", "u", "/", "a", "p", "p">>,
      <<"h", "t", "t", "p", "s", ":", "/", "/", "g", "i", "t", "l", "a", "b", ".", "c", "o", "m", "/", "u", "/", "a", "p", "p", ".", "g", "i", "t">> }

\* the URL two sessions analyze at the same time
RacedUrls == { <<"h", "t", "t", "p", "s", ":", "/", "/", "g", "i", "t", "h", "u", "b", ".", "c", "o", "m", "/", "u", "/", "a", "p", "p", ".", "g", "i", "t">> }

\* the first index of s that holds one of the characters cs; 0 when none does
FindAny(s, cs) ==
    LET hits == {i \in 1..Len(s) : s[i] \in cs}
    IN  IF hits = {} THEN 0 ELSE CHOOSE i \in hits : \A j \in hits : i <= j

\* urlparse(url).path: what follows scheme and network location, up to the
\* parameters, the query or the fragment
UrlPath(url) ==
    LET colon == Find(url, ":")
        rest == IF colon > 1 /\ FindAny(url, {"/", "?", "#"}) > colon
                THEN SubSeq(url, colon + 1, Len(url)) ELSE url
        hier == IF StartsWith(rest, <<"/", "/">>)
                THEN LET r == SubSeq(rest, 3, Len(rest))
                         cut == FindAny(r, {"/", "?", "#"})
                     IN  IF cut = 0 THEN << >> ELSE SubSeq(r, cut, Len(r))
                ELSE rest
        stop == FindAny(hier, {"?", "#"})
        path == IF stop = 0 THEN hier ELSE SubSeq(hier, 1, stop - 1)
        slash == RFind(path, "/")
        last == SubSeq(path, slash + 1, Len(path))
        semi == Find(last, ";")
    IN  IF semi = 0 THEN path ELSE SubSeq(path, 1, slash + semi - 1)

\* s.split("/")[-1]
LastSegment(s) == SubSeq(s, RFind(s, "/") + 1, Len(s))

\* s.split('.')[0]
BeforeFirstDot(s) ==
    IF Find(s, ".") = 0 THEN s ELSE SubSeq(s, 1, Find(s, ".") - 1)

\* lines 30-31: the directory name derived from the URL
RepoName(repo_url) == BeforeFirstDot(LastSegment(UrlPath(repo_url)))

\* line 32
LocalRepoPath(repo_url) == REPOS_DIR \o <<"/">> \o RepoName(repo_url)

\* os.path.exists of a path REPOS_DIR + "/" + name: a cloned repository, or
\* (for the empty name) REPOS_DIR itself
DirExists(name, dirs, clones) ==
    IF name = << >> THEN dirs ELSE name \in DOMAIN clones

\* the locals of the last Analyze click, here of none; git_ops records the
\* git operations of the clone_or_pull_repo call, each with whether the
\* directory was there when it ran and whether it succeeded, and clicks
\* counts the session's clicks on Analyze
NoAnalysis ==
    [repo_url |-> None, rejected |-> FALSE, repo_name |-> None,
     local_repo_path |-> None, existed |-> None, git_ops |-> << >>,
     returned |-> None, clicks |-> 0]

\* the locals of the get_or_create_index call of the last Analyze click,
\* here of none; file_reads, parsed, built and persisted record what the
\* call did
NoIndexCall ==
    [repo_path |-> None, repo_name |-> None, storage_path |-> None,
     found |-> None, file_reads |-> {}, parsed |-> {}, init_failed |-> {},
     parse_failed |-> {}, built |-> FALSE, persisted |-> FALSE,
     returned |-> None, raised |-> None]

\* the clicks on Analyze a behaviour holds, over all sessions
MaxClicks == 2

RECURSIVE ClicksOf(_)
ClicksOf(sessions) ==
    IF sessions = {} THEN 0
    ELSE LET s == CHOOSE x \in sessions : TRUE
         IN  an[s].clicks + ClicksOf(sessions \ {s})

\* main.py line 77
UrlAccepted(repo_url) ==
    repo_url # << >> /\ StartsWith(repo_url, <<"h", "t", "t", "p", "s", ":", "/", "/", "g", "i", "t", "h", "u", "b", ".", "c", "o", "m">>)

\* what the script leaves in messages when the run ends: main.py lines
\* 189-190 put the welcome message into an empty history
AtEndOfRun(session) ==
    IF session.messages = << >>
    THEN [session EXCEPT !.messages = <<WelcomeMessage>>]
    ELSE session

\* main.py lines 76-78: a click on Analyze with a URL that is turned away
ClickAnalyzeRejected(s, typed) ==
    /\ s \in active
    /\ pc[s] = "idle"
    /\ ClicksOf(Sessions) < MaxClicks
    /\ \E repo_url \in typed :
          /\ ~UrlAccepted(repo_url)
          /\ an' = [an EXCEPT ![s] =
                      [NoAnalysis EXCEPT !.repo_url = Some(repo_url),
                                         !.rejected = TRUE,
                                         !.clicks = an[s].clicks + 1]]
    /\ ix' = [ix EXCEPT ![s] = NoIndexCall]
    /\ UNCHANGED <<active, repos_dir, local, storage, ss, pc, documentVars>>

\* the locals of clone_or_pull_repo(repo_url) after lines 25-35, with
\* `existed` the outcome of the test of line 35
AnalysisOf(repo_url, existed, clicks) ==
    [NoAnalysis EXCEPT !.repo_url = Some(repo_url),
                       !.repo_name = Some(RepoName(repo_url)),
                       !.local_repo_path = Some(LocalRepoPath(repo_url)),
                       !.existed = Some(existed),
                       !.clicks = clicks]

\* a slip the claims must notice: the test of line 35 is negated
ClickAnalyzeInverted(s, typed) ==
    /\ s \in active
    /\ pc[s] = "idle"
    /\ ClicksOf(Sessions) < MaxClicks
    /\ \E repo_url \in typed :
          /\ UrlAccepted(repo_url)
          /\ LET existed == DirExists(RepoName(repo_url), TRUE, local)
             IN  /\ an' = [an EXCEPT ![s] =
                             AnalysisOf(repo_url, existed, an[s].clicks + 1)]
                 /\ pc' = [pc EXCEPT ![s] =
                             IF ~existed THEN "git_pull" ELSE "git_clone"]
    /\ ss' = [ss EXCEPT ![s].quick_start_guide = None,
                        ![s].api_docs = None,
                        ![s].messages = << >>]
    /\ ix' = [ix EXCEPT ![s] = NoIndexCall]
    /\ repos_dir' = TRUE
    /\ UNCHANGED <<active, local, storage, documentVars>>

\* main.py lines 76-90 and git_utils.py lines 25-35: a click on Analyze
\* with an accepted URL clears the earlier results and calls
\* clone_or_pull_repo, which makes REPOS_DIR if missing, derives the local
\* path and lets its existence decide between pull and clone; `typed` are
\* the URLs the session may have in the text input
ClickAnalyze(s, typed) ==
    /\ s \in active
    /\ pc[s] = "idle"
    /\ ClicksOf(Sessions) < MaxClicks
    /\ \E repo_url \in typed :
          /\ UrlAccepted(repo_url)
          /\ LET existed == DirExists(RepoName(repo_url), TRUE, local)
             IN  /\ an' = [an EXCEPT ![s] =
                             AnalysisOf(repo_url, existed, an[s].clicks + 1)]
                 /\ pc' = [pc EXCEPT ![s] =
                             IF existed THEN "git_pull" ELSE "git_clone"]
    /\ ss' = [ss EXCEPT ![s].quick_start_guide = None,
                        ![s].api_docs = None,
                        ![s].messages = << >>]
    /\ ix' = [ix EXCEPT ![s] = NoIndexCall]
    /\ repos_dir' = TRUE
    /\ UNCHANGED <<active, local, storage, documentVars>>

\* one git operation of a call, as recorded in git_ops
GitOp(op, name, ok) ==
    [op |-> op, dir_present |-> DirExists(name, repos_dir, local), ok |-> ok]

\* lines 36-42 and 51, main.py line 90: git.Repo(local_repo_path) raises
\* for a directory that is no repository; otherwise origin.pull() brings the
\* clone to a revision not older than its own, or raises; the path or None
\* is returned and stored as repo_path
GitPull(s) ==
    /\ s \in active
    /\ pc[s] = "git_pull"
    /\ LET name == Value(an[s].repo_name)
           path == Value(an[s].local_repo_path)
       IN  IF name \notin DOMAIN local
           THEN /\ an' = [an EXCEPT
                            ![s].git_ops = Append(@, GitOp("open", name, FALSE)),
                            ![s].returned = Some(None)]
                /\ ss' = [ss EXCEPT ![s].repo_path = None]
                /\ UNCHANGED local
           ELSE \/ \E rev \in local[name].rev..MaxRev :
                      /\ local' = [local EXCEPT ![name].rev = rev]
                      /\ an' = [an EXCEPT
                                  ![s].git_ops =
                                      @ \o <<GitOp("open", name, TRUE),
                                             GitOp("pull", name, TRUE)>>,
                                  ![s].returned = Some(Some(path))]
                      /\ ss' = [ss EXCEPT ![s].repo_path = Some(path)]
                \/ /\ an' = [an EXCEPT
                               ![s].git_ops =
                                   @ \o <<GitOp("open", name, TRUE),
                                          GitOp("pull", name, FALSE)>>,
                               ![s].returned = Some(None)]
                   /\ ss' = [ss EXCEPT ![s].repo_path = None]
                   /\ UNCHANGED local
    /\ pc' = [pc EXCEPT ![s] = "idx_check"]
    /\ UNCHANGED <<active, repos_dir, storage, ix, documentVars>>

\* a slip the claims must notice: a failed clone is not caught and leaves
\* clone_or_pull_repo as an exception, which main.py line 150 catches
GitCloneRaises(s) ==
    /\ s \in active
    /\ pc[s] = "git_clone"
    /\ LET name == Value(an[s].repo_name)
           path == Value(an[s].local_repo_path)
       IN  \/ /\ ~DirExists(name, repos_dir, local)
              /\ local' = [n \in DOMAIN local \cup {name} |->
                             IF n = name THEN [rev |-> 0] ELSE local[n]]
              /\ an' = [an EXCEPT
                          ![s].git_ops = Append(@, GitOp("clone", name, TRUE)),
                          ![s].returned = Some(Some(path))]
              /\ ss' = [ss EXCEPT ![s].repo_path = Some(path)]
              /\ pc' = [pc EXCEPT ![s] = "idx_check"]
           \/ /\ an' = [an EXCEPT
                          ![s].git_ops = Append(@, GitOp("clone", name, FALSE))]
              /\ ss' = [ss EXCEPT ![s] = AtEndOfRun(ss[s])]
              /\ pc' = [pc EXCEPT ![s] = "idle"]
              /\ UNCHANGED local
    /\ UNCHANGED <<active, repos_dir, storage, ix, documentVars>>

\* lines 43-51, main.py line 90: git.Repo.clone_from creates the directory
\* at the remote's revision, or raises (always so when the directory is
\* there already) and leaves the disk as it was; the path or None is
\* returned and stored as repo_path
GitClone(s) ==
    /\ s \in active
    /\ pc[s] = "git_clone"
    /\ LET name == Value(an[s].repo_name)
           path == Value(an[s].local_repo_path)
       IN  \/ /\ ~DirExists(name, repos_dir, local)
              /\ local' = [n \in DOMAIN local \cup {name} |->
                             IF n = name THEN [rev |-> 0] ELSE local[n]]
              /\ an' = [an EXCEPT
                          ![s].git_ops = Append(@, GitOp("clone", name, TRUE)),
                          ![s].returned = Some(Some(path))]
              /\ ss' = [ss EXCEPT ![s].repo_path = Some(path)]
           \/ /\ an' = [an EXCEPT
                          ![s].git_ops = Append(@, GitOp("clone", name, FALSE)),
                          ![s].returned = Some(None)]
              /\ ss' = [ss EXCEPT ![s].repo_path = None]
              /\ UNCHANGED local
    /\ pc' = [pc EXCEPT ![s] = "idx_check"]
    /\ UNCHANGED <<active, repos_dir, storage, ix, documentVars>>

---------------------------------------------------------------------------
(* src/index_builder.py: get_or_create_index.                              *)

\* the working tree a clone holds at a revision: every revision after the
\* first rewrites notes.txt
WorkTree(rev) ==
    {[dir |-> <<<<"s", "r", "c">>>>, name |-> <<"a", "p", "p", ".", "p", "y">>, size |-> 10, stat_ok |-> TRUE],
     [dir |-> << >>, name |-> <<"l", "o", "g", "o", ".", "p", "n", "g">>, size |-> 10, stat_ok |-> TRUE]}
    \cup (IF rev = 0 THEN {}
          ELSE {[dir |-> << >>, name |-> <<"n", "o", "t", "e", "s", ".", "t", "x", "t">>, size |-> rev,
                 stat_ok |-> TRUE]})

\* lines 60-131: the entries of `exclude` that are plain names
ExcludedNames ==
    {
      <<".", "g", "i", "t">>, <<".", "s", "v", "n">>, <<".", "h", "g">>, <<".", "b", "z", "r">>, <<"n", "o", "d", "e", "_", "m", "o", "d", "u", "l", "e", "s">>,
      <<"b", "o", "w", "e", "r", "_", "c", "o", "m", "p", "o", "n", "e", "n", "t", "s">>, <<"v", "e", "n", "d", "o", "r">>, <<"t", "a", "r", "g", "e", "t">>, <<"b", "u", "i", "l", "d">>,
      <<"d", "i", "s", "t">>, <<"b", "i", "n">>, <<"o", "b", "j">>, <<".", "g", "r", "a", "d", "l", "e">>, <<"_", "_", "p", "y", "c", "a", "c", "h", "e", "_", "_">>,
      <<"v", "e", "n", "v">>, <<".", "v", "e", "n", "v">>, <<"e", "n", "v">>, <<".", "e", "n", "v">>, <<"E", "N", "V">>, <<".", "i", "d", "e", "a">>,
      <<".", "v", "s", "c", "o", "d", "e">>, <<".", "v", "s">>, <<".", "s", "u", "b", "l", "i", "m", "e", "-", "p", "r", "o", "j", "e", "c", "t">>,
      <<".", "s", "u", "b", "l", "i", "m", "e", "-", "w", "o", "r", "k", "s", "p", "a", "c", "e">>, <<".", "p", "r", "o", "j", "e", "c", "t">>, <<".", "c", "l", "a", "s", "s", "p", "a", "t", "h">>,
      <<".", "s", "e", "t", "t", "i", "n", "g", "s">>, <<".", "D", "S", "_", "S", "t", "o", "r", "e">>, <<"T", "h", "u", "m", "b", "s", ".", "d", "b">>, <<"d", "e", "s", "k", "t", "o", "p", ".", "i", "n", "i">>,
      <<"c", "a", "c", "h", "e">>, <<".", "c", "a", "c", "h", "e">>, <<"l", "o", "g", "s">>, <<"p", "a", "c", "k", "a", "g", "e", "-", "l", "o", "c", "k", ".", "j", "s", "o", "n">>,
      <<"y", "a", "r", "n", ".", "l", "o", "c", "k">>, <<"p", "n", "p", "m", "-", "l", "o", "c", "k", ".", "y", "a", "m", "l">>, <<"p", "o", "e", "t", "r", "y", ".", "l", "o", "c", "k">>,
      <<"P", "i", "p", "f", "i", "l", "e", ".", "l", "o", "c", "k">>, <<"c", "o", "m", "p", "o", "s", "e", "r", ".", "l", "o", "c", "k">>    }

\* lines 60-131: the entries of `exclude` of the form *<suffix>, by suffix
ExcludedSuffixes ==
    {
      <<".", "p", "y", "c">>, <<".", "p", "y", "o">>, <<".", "e", "g", "g", "-", "i", "n", "f", "o">>, <<".", "s", "w", "p">>, <<".", "s", "w", "o">>, <<".", "l", "o", "g">>,
      <<".", "t", "m", "p">>, <<".", "t", "e", "m", "p">>, <<".", "p", "n", "g">>, <<".", "j", "p", "g">>, <<".", "j", "p", "e", "g">>, <<".", "g", "i", "f">>,
      <<".", "b", "m", "p">>, <<".", "t", "i", "f", "f">>, <<".", "w", "e", "b", "p">>, <<".", "i", "c", "o">>, <<".", "s", "v", "g">>, <<".", "m", "p", "3">>,
      <<".", "w", "a", "v">>, <<".", "o", "g", "g">>, <<".", "f", "l", "a", "c">>, <<".", "m", "p", "4">>, <<".", "m", "k", "v">>, <<".", "m", "o", "v">>,
      <<".", "a", "v", "i">>, <<".", "w", "e", "b", "m">>, <<".", "t", "t", "f">>, <<".", "o", "t", "f">>, <<".", "w", "o", "f", "f">>, <<".", "w", "o", "f", "f", "2">>,
      <<".", "z", "i", "p">>, <<".", "r", "a", "r">>, <<".", "7", "z">>, <<".", "t", "a", "r">>, <<".", "g", "z">>, <<".", "b", "z", "2">>,
      <<".", "x", "z">>, <<".", "p", "d", "f">>, <<".", "d", "o", "c">>, <<".", "d", "o", "c", "x">>, <<".", "x", "l", "s">>, <<".", "x", "l", "s", "x">>,
      <<".", "p", "p", "t">>, <<".", "p", "p", "t", "x">>, <<".", "o", "d", "t">>, <<".", "e", "x", "e">>, <<".", "d", "l", "l">>, <<".", "s", "o">>,
      <<".", "a">>, <<".", "l", "i", "b">>, <<".", "j", "a", "r">>, <<".", "w", "a", "r">>    }

\* lines 134-139: whether the reader leaves a file out, for an entry of
\* `exclude` that its name or a directory above it matches
ReaderExcludes(file) ==
    \/ \E n \in Members(file.dir) \cup {file.name} :
          \/ n \in ExcludedNames
          \/ \E x \in ExcludedSuffixes : EndsWith(n, x)

\* lines 134-139: the files reader.load_data reads
Documents(files) == {f \in files : ~ReaderExcludes(f)}

\* lines 144-145: the language a document is grouped under
DocLanguage(file) ==
    IF InLanguageMap(SplitExt(file.name))
    THEN LanguageOf(SplitExt(file.name)) ELSE "default"

\* lines 142-146: the keys of docs_by_language
Languages(documents) == {DocLanguage(d) : d \in documents}

\* a persisted or freshly built index: the repository name, the revision
\* of the working tree it was built from and the files its nodes come from
Index(repo_name, rev, documents) ==
    [repo |-> repo_name, rev |-> rev, nodes |-> documents]

\* main.py lines 95-151, the rest of the Analyze handler once the index is
\* there: create_query_router or OpenAIAgent.from_tools may raise, which
\* line 150 catches after what was assigned before; otherwise the engines
\* are stored and the ready message is appended
FinishOutcomes == {"router_raises", "agent_raises", "ready"}

Finished(session, index, outcome) ==
    LET query_engine == QueryRouter(index)
    IN  IF outcome = "router_raises" THEN AtEndOfRun(session)
        ELSE IF outcome = "agent_raises"
        THEN AtEndOfRun([session EXCEPT !.query_engine = Some(query_engine)])
        ELSE [session EXCEPT
                !.query_engine = Some(query_engine),
                !.chat_engine = Some(Agent(query_engine)),
                !.messages = Append(@, ReadyMessage(Value(session.repo_path)))]

\* a slip the claims must notice: the storage is tested under a lock that
\* a session holds until it has loaded or built its index
IdxCheckLocked(s) ==
    /\ s \in active
    /\ pc[s] = "idx_check"
    /\ \A t \in Sessions \ {s} : pc[t] \notin {"idx_load", "idx_build"}
    /\ IF ss[s].repo_path = None
       THEN /\ ix' = [ix EXCEPT ![s] =
                        [NoIndexCall EXCEPT !.raised = Some("TypeError")]]
            /\ ss' = [ss EXCEPT ![s] = AtEndOfRun(ss[s])]
            /\ pc' = [pc EXCEPT ![s] = "idle"]
       ELSE LET repo_name == BaseName(Value(ss[s].repo_path))
                found == repo_name \in DOMAIN storage
            IN  /\ ix' = [ix EXCEPT ![s] =
                            [NoIndexCall EXCEPT
                                !.repo_path = ss[s].repo_path,
                                !.repo_name = Some(repo_name),
                                !.storage_path =
                                    Some(PathJoin(STORAGE_DIR, repo_name)),
                                !.found = Some(found)]]
                /\ pc' = [pc EXCEPT ![s] =
                            IF found THEN "idx_load" ELSE "idx_build"]
                /\ UNCHANGED ss
    /\ UNCHANGED <<active, repos_dir, local, storage, an, documentVars>>

\* a slip the claims must notice: the test of line 50 is dropped and every
\* call builds
IdxCheckAlwaysBuilds(s) ==
    /\ s \in active
    /\ pc[s] = "idx_check"
    /\ IF ss[s].repo_path = None
       THEN /\ ix' = [ix EXCEPT ![s] =
                        [NoIndexCall EXCEPT !.raised = Some("TypeError")]]
            /\ ss' = [ss EXCEPT ![s] = AtEndOfRun(ss[s])]
            /\ pc' = [pc EXCEPT ![s] = "idle"]
       ELSE LET repo_name == BaseName(Value(ss[s].repo_path))
            IN  /\ ix' = [ix EXCEPT ![s] =
                            [NoIndexCall EXCEPT
                                !.repo_path = ss[s].repo_path,
                                !.repo_name = Some(repo_name),
                                !.storage_path =
                                    Some(PathJoin(STORAGE_DIR, repo_name)),
                                !.found = Some(repo_name \in DOMAIN storage)]]
                /\ pc' = [pc EXCEPT ![s] = "idx_build"]
                /\ UNCHANGED ss
    /\ UNCHANGED <<active, repos_dir, local, storage, an, documentVars>>

\* main.py line 93 and lines 46-50: the call with the session's repo_path;
\* os.path.basename(None) raises, which main.py line 150 catches; otherwise
\* the existence of the storage path decides between load and build
IdxCheck(s) ==
    /\ s \in active
    /\ pc[s] = "idx_check"
    /\ IF ss[s].repo_path = None
       THEN /\ ix' = [ix EXCEPT ![s] =
                        [NoIndexCall EXCEPT !.raised = Some("TypeError")]]
            /\ ss' = [ss EXCEPT ![s] = AtEndOfRun(ss[s])]
            /\ pc' = [pc EXCEPT ![s] = "idle"]
       ELSE LET repo_name == BaseName(Value(ss[s].repo_path))
                found == repo_name \in DOMAIN storage
            IN  /\ ix' = [ix EXCEPT ![s] =
                            [NoIndexCall EXCEPT
                                !.repo_path = ss[s].repo_path,
                                !.repo_name = Some(repo_name),
                                !.storage_path =
                                    Some(PathJoin(STORAGE_DIR, repo_name)),
                                !.found = Some(found)]]
                /\ pc' = [pc EXCEPT ![s] =
                            IF found THEN "idx_load" ELSE "idx_build"]
                /\ UNCHANGED ss
    /\ UNCHANGED <<active, repos_dir, local, storage, an, documentVars>>

\* a slip the claims must notice: the load branch compares the entry with
\* the working tree and writes a fresh entry when the clone has moved on
IdxLoadRefreshes(s) ==
    /\ s \in active
    /\ pc[s] = "idx_load"
    /\ LET repo_name == Value(ix[s].repo_name)
           rev == local[repo_name].rev
           index == IF storage[repo_name].rev = rev THEN storage[repo_name]
                    ELSE Index(repo_name, rev, Documents(WorkTree(rev)))
       IN  /\ ix' = [ix EXCEPT ![s].returned = Some(index)]
           /\ storage' = [storage EXCEPT ![repo_name] = index]
           /\ \E outcome \in FinishOutcomes :
                 ss' = [ss EXCEPT ![s] = Finished(ss[s], index, outcome)]
    /\ pc' = [pc EXCEPT ![s] = "idle"]
    /\ UNCHANGED <<active, repos_dir, local, an, documentVars>>

\* lines 51-54 and 179, main.py lines 93-151: the persisted index is
\* loaded and returned, and the handler finishes on it
IdxLoad(s) ==
    /\ s \in active
    /\ pc[s] = "idx_load"
    /\ LET index == storage[Value(ix[s].repo_name)]
       IN  /\ ix' = [ix EXCEPT ![s].returned = Some(index)]
           /\ \E outcome \in FinishOutcomes :
                 ss' = [ss EXCEPT ![s] = Finished(ss[s], index, outcome)]
    /\ pc' = [pc EXCEPT ![s] = "idle"]
    /\ UNCHANGED <<active, repos_dir, local, storage, an, documentVars>>

\* a slip the claims must notice: the test of line 172 is missing, and an
\* index without nodes is built and persisted
IdxBuildKeepsEmpty(s) ==
    /\ s \in active
    /\ pc[s] = "idx_build"
    /\ LET repo_name == Value(ix[s].repo_name)
           rev == local[repo_name].rev
           documents == Documents(WorkTree(rev))
           languages == Languages(documents)
       IN  \E init_failed \in SUBSET (languages \ {"default"}) :
           \E parse_failed \in SUBSET (languages \ init_failed) :
              LET parsed == (languages \ init_failed) \ parse_failed
                  all_nodes == {d \in documents : DocLanguage(d) \in parsed}
                  done == [ix[s] EXCEPT !.file_reads = documents,
                                        !.parsed = parsed,
                                        !.init_failed = init_failed,
                                        !.parse_failed = parse_failed]
                  index == Index(repo_name, rev, all_nodes)
              IN           /\ ix' = [ix EXCEPT ![s] =
                                       [done EXCEPT !.built = TRUE,
                                                    !.persisted = TRUE,
                                                    !.returned = Some(index)]]
                           /\ storage' =
                                 [n \in DOMAIN storage \cup {repo_name} |->
                                    IF n = repo_name THEN index
                                    ELSE storage[n]]
                           /\ \E outcome \in FinishOutcomes :
                                 ss' = [ss EXCEPT ![s] =
                                          Finished(ss[s], index, outcome)]
                           /\ pc' = [pc EXCEPT ![s] = "idle"]
    /\ UNCHANGED <<active, repos_dir, local, an, documentVars>>

\* lines 56-179, main.py lines 93-151: the reader reads the working tree;
\* each language's documents are parsed unless its splitter fails to load
\* (init_failed) or its parse raises (parse_failed); with no node the call
\* raises, which main.py line 150 catches; otherwise the index is built,
\* persisted and returned, and the handler finishes on it
IdxBuild(s) ==
    /\ s \in active
    /\ pc[s] = "idx_build"
    /\ LET repo_name == Value(ix[s].repo_name)
           rev == local[repo_name].rev
           documents == Documents(WorkTree(rev))
           languages == Languages(documents)
       IN  \E init_failed \in SUBSET (languages \ {"default"}) :
           \E parse_failed \in SUBSET (languages \ init_failed) :
              LET parsed == (languages \ init_failed) \ parse_failed
                  all_nodes == {d \in documents : DocLanguage(d) \in parsed}
                  done == [ix[s] EXCEPT !.file_reads = documents,
                                        !.parsed = parsed,
                                        !.init_failed = init_failed,
                                        !.parse_failed = parse_failed]
              IN  IF all_nodes = {}
                  THEN /\ ix' = [ix EXCEPT ![s] =
                                   [done EXCEPT !.raised = Some("ValueError")]]
                       /\ ss' = [ss EXCEPT ![s] = AtEndOfRun(ss[s])]
                       /\ pc' = [pc EXCEPT ![s] = "idle"]
                       /\ UNCHANGED storage
                  ELSE LET index == Index(repo_name, rev, all_nodes)
                       IN  /\ ix' = [ix EXCEPT ![s] =
                                       [done EXCEPT !.built = TRUE,
                                                    !.persisted = TRUE,
                                                    !.returned = Some(index)]]
                           /\ storage' =
                                 [n \in DOMAIN storage \cup {repo_name} |->
                                    IF n = repo_name THEN index
                                    ELSE storage[n]]
                           /\ \E outcome \in FinishOutcomes :
                                 ss' = [ss EXCEPT ![s] =
                                          Finished(ss[s], index, outcome)]
                           /\ pc' = [pc EXCEPT ![s] = "idle"]
    /\ UNCHANGED <<active, repos_dir, local, an, documentVars>>

---------------------------------------------------------------------------
(* src/doc_generator.py lines 102-148: key-file selection, one router      *)
(* query per key file, final synthesis; main.py line 171 stores whatever   *)
(* generate_quick_start returns.                                            *)

\* the most key files the selection call returns
MaxKeyFiles == 2

\* line 110, line 148: the two error strings; line 145: the model's answer
SelectError == [kind |-> "error", text |-> "Could not identify key files"]
SynthesisError == [kind |-> "error", text |-> "Could not synthesize"]
FinalGuide == [kind |-> "guide"]

\* every path of the classified file list built on lines 71-81
ListedPaths(cat) ==
    Members(cat.Documentation) \cup Members(cat.Configuration)
        \cup Members(cat.Other)
        \cup UNION {Members(cat.SourceCode[i].files) : i \in DOMAIN cat.SourceCode}

\* a path the prompt did not list
UnlistedPath == <<"d", "o", "c", "s", "/", "s", "e", "t", "u", "p", ".", "m", "d">>

RECURSIVE SeqsUpTo(_, _)
\* the sequences over S of length at most k
SeqsUpTo(S, k) ==
    IF k = 0 THEN {<< >>}
    ELSE LET prev == SeqsUpTo(S, k - 1)
         IN  prev \cup {Append(q, x) : q \in prev, x \in S}

\* what llm.structured_predict(KeyFiles, ...) can return: the schema fixes
\* the shape of the records, the prompt alone suggests the paths
KeyFilesAnswers(cat) ==
    SeqsUpTo({[file_path |-> p, reason |-> "reason"] :
                 p \in ListedPaths(cat) \cup {UnlistedPath}}, MaxKeyFiles)

\* a slip the claims must notice: a failed selection is not caught
QsSelectRaisesUncaught(s) ==
    /\ s \in active
    /\ pc[s] = "qs_select"
    /\ qs' = [qs EXCEPT
                ![s].llm_calls =
                    Append(@, [call |-> "structured_predict", ok |-> FALSE]),
                ![s].raised = Some("structured_predict")]
    /\ pc' = [pc EXCEPT ![s] = "idle"]
    /\ UNCHANGED <<active, fs, ss, ad, analysisVars>>

\* lines 102-110, the call raises: the error string is returned, and
\* main.py line 171 stores it
QsSelectRaises(s) ==
    /\ s \in active
    /\ pc[s] = "qs_select"
    /\ qs' = [qs EXCEPT
                ![s].llm_calls =
                    Append(@, [call |-> "structured_predict", ok |-> FALSE]),
                ![s].result = Some(SelectError)]
    /\ ss' = [ss EXCEPT ![s].quick_start_guide = Some(SelectError)]
    /\ pc' = [pc EXCEPT ![s] = "idle"]
    /\ UNCHANGED <<active, fs, ad, analysisVars>>

\* lines 102-108 and 113, the call answers
QsSelect(s) ==
    /\ s \in active
    /\ pc[s] = "qs_select"
    /\ \E key_files \in KeyFilesAnswers(qs[s].categorized) :
          qs' = [qs EXCEPT
                   ![s].llm_calls =
                       Append(@, [call |-> "structured_predict", ok |-> TRUE]),
                   ![s].key_files = key_files]
    /\ pc' = [pc EXCEPT ![s] = "qs_summarize"]
    /\ UNCHANGED <<active, fs, ss, ad, analysisVars>>

\* line 116: the query text
SummaryQuery(file_path) == [ask |-> "summarize", file |-> file_path]

\* line 117 and line 119: the section appended for a key file
SummarySection(kf, ok) ==
    IF ok
    THEN [file |-> kf.file_path, importance |-> kf.reason, body |-> "Summary"]
    ELSE [file |-> kf.file_path, importance |-> "", body |-> "Error"]

\* a slip the claims must notice: a failed query ends the whole call
QsQueryNoIsolation(s) ==
    /\ s \in active
    /\ pc[s] = "qs_summarize"
    /\ Len(qs[s].summaries) < Len(qs[s].key_files)
    /\ LET kf == qs[s].key_files[Len(qs[s].summaries) + 1]
       IN  \E ok \in BOOLEAN :
             IF ok
             THEN /\ qs' = [qs EXCEPT
                        ![s].queries = Append(@, SummaryQuery(kf.file_path)),
                        ![s].outcomes = Append(@, ok),
                        ![s].summaries = Append(@, SummarySection(kf, ok))]
                  /\ UNCHANGED <<ss, pc>>
             ELSE /\ qs' = [qs EXCEPT
                        ![s].queries = Append(@, SummaryQuery(kf.file_path)),
                        ![s].outcomes = Append(@, ok),
                        ![s].result = Some(SynthesisError)]
                  /\ ss' = [ss EXCEPT
                        ![s].quick_start_guide = Some(SynthesisError)]
                  /\ pc' = [pc EXCEPT ![s] = "idle"]
    /\ UNCHANGED <<active, fs, ad, analysisVars>>

\* lines 114-119: one turn of the loop, the query answering or raising
QsQuery(s) ==
    /\ s \in active
    /\ pc[s] = "qs_summarize"
    /\ Len(qs[s].summaries) < Len(qs[s].key_files)
    /\ LET kf == qs[s].key_files[Len(qs[s].summaries) + 1]
       IN  \E ok \in BOOLEAN :
             qs' = [qs EXCEPT
                      ![s].queries = Append(@, SummaryQuery(kf.file_path)),
                      ![s].outcomes = Append(@, ok),
                      ![s].summaries = Append(@, SummarySection(kf, ok))]
    /\ UNCHANGED <<active, fs, ss, pc, ad, analysisVars>>

\* lines 120 and 140-148: "\n---\n".join(summaries) goes to llm.predict,
\* which answers or raises; main.py line 171 stores what is returned
QsSynthesize(s) ==
    /\ s \in active
    /\ pc[s] = "qs_summarize"
    /\ Len(qs[s].summaries) = Len(qs[s].key_files)
    /\ \E ok \in BOOLEAN :
          LET result == IF ok THEN FinalGuide ELSE SynthesisError
          IN  /\ qs' = [qs EXCEPT
                        ![s].llm_calls =
                            Append(@, [call |-> "predict", ok |-> ok,
                                       summaries |-> qs[s].summaries]),
                        ![s].result = Some(result)]
              /\ ss' = [ss EXCEPT ![s].quick_start_guide = Some(result)]
    /\ pc' = [pc EXCEPT ![s] = "idle"]
    /\ UNCHANGED <<active, fs, ad, analysisVars>>

---------------------------------------------------------------------------
(* src/doc_generator.py lines 193-249 and main.py lines 174-181: the click *)
(* on "Generate API Docs". Nothing in either file catches what the loop    *)
(* of lines 218-247 raises.                                                 *)

NoSourcesMessage == [kind |-> "no_source_files"]

\* lines 193-202: the source file list, and the early return on an empty
\* one, which main.py line 180 stores
ApiListSources(s) ==
    /\ s \in active
    /\ pc[s] = "idle"
    /\ ss[s].chat_engine # None
    /\ ss[s].repo_path # None
    /\ LET source_files == SourceFiles(Value(ss[s].repo_path), fs)
       IN  /\ ad' = [ad EXCEPT ![s] =
                       [NoApiDocs EXCEPT
                           !.repo_path = ss[s].repo_path,
                           !.source_files = source_files,
                           !.api_docs_before = ss[s].api_docs,
                           !.result = IF source_files = << >>
                                      THEN Some(NoSourcesMessage) ELSE None]]
           /\ IF source_files = << >>
              THEN /\ ss' = [ss EXCEPT ![s].api_docs = Some(NoSourcesMessage)]
                   /\ pc' = [pc EXCEPT ![s] = "idle"]
              ELSE /\ pc' = [pc EXCEPT ![s] = "api_file"]
                   /\ UNCHANGED ss
    /\ UNCHANGED <<active, fs, qs, analysisVars>>

\* a path the model can put into APIFile.file_path instead of the file's own
OtherApiPath == <<"l", "i", "b", ".", "p", "y">>

\* lines 228-245: the Markdown of one structured answer; its heading names
\* the path the answer carries, its body is rendered from the answer
ApiMarkdown(structured_response) ==
    [heading |-> structured_response.file_path, body |-> "api"]

\* a slip the claims must notice: a file that fails is noted and skipped
ApiFileRaisesIsolated(s) ==
    /\ s \in active
    /\ pc[s] = "api_file"
    /\ Len(ad[s].reads) < Len(ad[s].source_files)
    /\ LET file_path == ad[s].source_files[Len(ad[s].reads) + 1]
       IN  ad' = [ad EXCEPT
                    ![s].reads = Append(@, file_path),
                    ![s].raised = Some("skipped"),
                    ![s].api_docs_str_list =
                        Append(@, [heading |-> file_path, body |-> "error"])]
    /\ UNCHANGED <<active, fs, ss, pc, qs, analysisVars>>

\* lines 219-226: open/read or llm.structured_predict raises; the exception
\* leaves generate_api_docs and the script run, before main.py line 180
ApiFileRaises(s) ==
    /\ s \in active
    /\ pc[s] = "api_file"
    /\ Len(ad[s].reads) < Len(ad[s].source_files)
    /\ LET file_path == ad[s].source_files[Len(ad[s].reads) + 1]
       IN  \E failing \in {"open", "structured_predict"} :
             ad' = [ad EXCEPT ![s].reads = Append(@, file_path),
                              ![s].raised = Some(failing)]
    /\ pc' = [pc EXCEPT ![s] = "idle"]
    /\ UNCHANGED <<active, fs, ss, qs, analysisVars>>

\* lines 218-247: one turn of the loop, the file read and extracted
ApiFile(s) ==
    /\ s \in active
    /\ pc[s] = "api_file"
    /\ Len(ad[s].reads) < Len(ad[s].source_files)
    /\ LET file_path == ad[s].source_files[Len(ad[s].reads) + 1]
       IN  \E answered_path \in {file_path, OtherApiPath} :
             ad' = [ad EXCEPT
                      ![s].reads = Append(@, file_path),
                      ![s].api_docs_str_list =
                          Append(@, ApiMarkdown([file_path |-> answered_path]))]
    /\ UNCHANGED <<active, fs, ss, pc, qs, analysisVars>>

\* line 249 and main.py line 180: the joined sections are returned and stored
ApiReturn(s) ==
    /\ s \in active
    /\ pc[s] = "api_file"
    /\ Len(ad[s].reads) = Len(ad[s].source_files)
    /\ LET docs == [kind |-> "api_docs", sections |-> ad[s].api_docs_str_list]
       IN  /\ ad' = [ad EXCEPT ![s].result = Some(docs)]
           /\ ss' = [ss EXCEPT ![s].api_docs = Some(docs)]
    /\ pc' = [pc EXCEPT ![s] = "idle"]
    /\ UNCHANGED <<active, fs, qs, analysisVars>>

---------------------------------------------------------------------------
(* main.py lines 22-32 and 212-243: clean_markdown_output and the tabs.    *)

\* the longest text a model answer is taken from
MaxTextLen == 7

\* the backquote character, which a string of this language cannot hold
Backquote == "BQ"

\* the characters of the texts: a backquote, a word character, a newline
\* and a blank
TextChars == {Backquote, "a", "\n", " "}

\* the characters str.strip() removes, among TextChars
Whitespace == {"\n", " "}

\* the characters \w matches, among TextChars
WordChars == {"a"}

\* the fence of a code block
Fence == <<Backquote, Backquote, Backquote>>

\* str.strip()
Strip(text) ==
    LET inked == {i \in 1..Len(text) : text[i] \notin Whitespace}
    IN  IF inked = {} THEN << >>
        ELSE SubSeq(text,
                    CHOOSE i \in inked : \A j \in inked : i <= j,
                    CHOOSE i \in inked : \A j \in inked : j <= i)

\* where the closing fence of the pattern of line 28 starts: a fence and
\* then "$" match at the end of the text or before a newline that ends it;
\* 0 when the text has no such ending
ClosingFence(text) ==
    LET n == Len(text)
    IN  IF n >= 3 /\ SubSeq(text, n - 2, n) = Fence THEN n - 2
        ELSE IF n >= 4 /\ text[n] = "\n" /\ SubSeq(text, n - 3, n - 1) = Fence
        THEN n - 3
        ELSE 0

\* where group 2 starts when the optional group (\w*\n) of line 28 takes
\* part in the match: after the word characters and the newline that follow
\* the opening fence; 0 when no newline follows them
AfterTag(text) ==
    LET nl == {i \in 4..Len(text) :
                 /\ text[i] = "\n"
                 /\ \A k \in 4..(i - 1) : text[k] \in WordChars}
    IN  IF nl = {} THEN 0 ELSE (CHOOSE i \in nl : TRUE) + 1

\* lines 22-32: re.match of the pattern  ^ fence (\w*\n)? (.*?) fence $
\* with re.DOTALL, and group 2 trimmed, or the whole text trimmed when
\* there is no match. The
\* optional group is tried first and given up only if no match follows;
\* group 2 is lazy, and ends where the one possible closing fence starts
clean_markdown_output(raw_text) ==
    LET close == ClosingFence(raw_text)
        tagged == AfterTag(raw_text)
    IN  IF StartsWith(raw_text, Fence) /\ close >= 4
        THEN Strip(SubSeq(raw_text,
                          IF tagged # 0 /\ tagged <= close THEN tagged ELSE 4,
                          close - 1))
        ELSE Strip(raw_text)

\* lines 215, 224 and 236: the truth value of a session entry that holds
\* None or a text
Truthy(entry) == entry # None /\ Value(entry) # << >>

\* lines 212-243: the script draws the three document tabs of a session
DrawTabs(s) ==
    /\ s \in active
    /\ pc[s] = "idle"
    /\ tabs' = [tabs EXCEPT ![s] =
                  [file_tree |->
                       IF Truthy(ss[s].file_tree) THEN ss[s].file_tree
                       ELSE None,
                   quick_start |->
                       IF Truthy(ss[s].quick_start_guide)
                       THEN Some(clean_markdown_output(
                                     Value(ss[s].quick_start_guide)))
                       ELSE None,
                   api_docs |->
                       IF Truthy(ss[s].api_docs)
                       THEN Some(clean_markdown_output(Value(ss[s].api_docs)))
                       ELSE None]]
    /\ UNCHANGED <<active, repos_dir, local, storage, fs, ss, pc, an, ix, qs, ad>>

---------------------------------------------------------------------------
(* src/tools.py lines 7-40 and main.py lines 158-162: the file tree.       *)

\* tools.py line 7: the default of max_depth
max_depth == 3

\* tools.py line 21
exclude_dirs ==
    {<<".", "g", "i", "t">>, <<".", "v", "s", "c", "o", "d", "e">>, <<"n", "o", "d", "e", "_", "m", "o", "d", "u", "l", "e", "s">>, <<"_", "_", "p", "y", "c", "a", "c", "h", "e", "_", "_">>, <<"t", "a", "r", "g", "e", "t">>,
     <<"b", "u", "i", "l", "d">>, <<"d", "i", "s", "t">>, <<".", "v", "e", "n", "v">>, <<"v", "e", "n", "v">>}

\* tools.py lines 23-38: the walk leaves out what lies below a directory
\* whose name is in exclude_dirs, and lists the files of the directories
\* of a level below max_depth
TreeFiles(files) ==
    {f \in files :
        /\ \A i \in DOMAIN f.dir : f.dir[i] \notin exclude_dirs
        /\ Len(f.dir) < max_depth}

\* tools.py lines 18-40: the tree, as the name in its heading and the
\* files it lists
get_file_tree(repo_path, files) ==
    [heading |-> BaseName(repo_path),
     listed |-> {<<f.dir, f.name>> : f \in TreeFiles(files)}]

\* main.py lines 158-162: a click on "Generate File Tree"; a click of a
\* session without repo_path raises in os.path.basename and changes
\* nothing, so it is no step
GenerateFileTree(s) ==
    /\ s \in active
    /\ pc[s] = "idle"
    /\ ss[s].chat_engine # None
    /\ ss[s].repo_path # None
    /\ ss' = [ss EXCEPT ![s].file_tree =
                Some(get_file_tree(Value(ss[s].repo_path), fs))]
    /\ UNCHANGED <<active, pc, analysisVars, documentVars>>

---------------------------------------------------------------------------
(* The two walks on their own: every file system of up to MaxFiles files   *)
(* under each repository path, walked by a session that analyzed it. A    *)
(* started API-doc run ends at its first file, so that both walks of one  *)
(* file system are seen in one behaviour.                                  *)

\* the index a first analysis of a repository builds when nothing fails
AnalyzedIndex(repo_name) == Index(repo_name, 0, Documents(WorkTree(0)))

\* the disk and the call records once one analysis of the repository named
\* repo_name has run to the end and no other has started
AfterAnalysisOf(repo_name) ==
    /\ repos_dir = TRUE
    /\ local = [n \in {repo_name} |-> [rev |-> 0]]
    /\ storage = [n \in {repo_name} |-> AnalyzedIndex(repo_name)]
    /\ an = [s \in Sessions |-> NoAnalysis]
    /\ ix = [s \in Sessions |-> NoIndexCall]

InitClassify ==
    /\ active = {"s1"}
    /\ fs \in {f \in FileSystemsUpTo(MaxFiles) : OneSizePerFile(f)}
    /\ \E p \in RepoPaths :
          /\ ss = [s \in Sessions |->
                     IF s \in active
                     THEN AnalyzedSession(p, AnalyzedIndex(BaseName(p)))
                     ELSE FreshSession]
          /\ AfterAnalysisOf(BaseName(p))
    /\ pc = [s \in Sessions |-> "idle"]
    /\ qs = [s \in Sessions |-> NoQuickStart]
    /\ ad = [s \in Sessions |-> NoApiDocs]
    /\ tabs = [s \in Sessions |-> NoTabs]

NextClassify ==
    \E s \in Sessions :
        GuideClassify(s) \/ ApiListSources(s) \/ ApiFileRaises(s)

SpecClassify == InitClassify /\ [][NextClassify]_vars

---------------------------------------------------------------------------
(* The guide pipeline and the API-doc run, each on a few small             *)
(* repositories at one path, clicked again and again by one session.       *)

\* the files the small repositories are made of
SmallRepoFiles ==
    {[dir |-> << >>, name |-> <<"R", "E", "A", "D", "M", "E", ".", "m", "d">>, size |-> 10, stat_ok |-> TRUE],
     [dir |-> << >>, name |-> <<"m", "a", "i", "n", ".", "g", "o">>, size |-> 10, stat_ok |-> TRUE],
     [dir |-> <<<<"s", "r", "c">>>>, name |-> <<"a", "p", "p", ".", "p", "y">>, size |-> 10, stat_ok |-> TRUE]}

InitSmall ==
    /\ active = {"s1"}
    /\ fs \in SUBSET SmallRepoFiles
    /\ ss = [s \in Sessions |->
               IF s \in active
               THEN AnalyzedSession(<<"r", "e", "p", "o", "s", "/", "a", "p", "p">>, AnalyzedIndex(<<"a", "p", "p">>))
               ELSE FreshSession]
    /\ AfterAnalysisOf(<<"a", "p", "p">>)
    /\ pc = [s \in Sessions |-> "idle"]
    /\ qs = [s \in Sessions |-> NoQuickStart]
    /\ ad = [s \in Sessions |-> NoApiDocs]
    /\ tabs = [s \in Sessions |-> NoTabs]

NextGuide ==
    \E s \in Sessions :
        \/ GuideClassify(s)
        \/ QsSelectRaises(s)
        \/ QsSelect(s)
        \/ QsQuery(s)
        \/ QsSynthesize(s)

SpecGuide == InitSmall /\ [][NextGuide]_vars

NextApi ==
    \E s \in Sessions :
        \/ ApiListSources(s)
        \/ ApiFileRaises(s)
        \/ ApiFile(s)
        \/ ApiReturn(s)

SpecApi == InitSmall /\ [][NextApi]_vars


---------------------------------------------------------------------------
(* The Analyze handler from a first start of the server: nothing cloned,   *)
(* nothing persisted. One session clicks Analyze again and again on any   *)
(* URL; or two sessions click it on the URL of one repository.            *)

InitServer ==
    /\ repos_dir = FALSE
    /\ local = [n \in {} |-> [rev |-> 0]]
    /\ storage = [n \in {} |-> AnalyzedIndex(n)]
    /\ fs = WorkTree(0)
    /\ ss = [s \in Sessions |-> FreshSession]
    /\ pc = [s \in Sessions |-> "idle"]
    /\ an = [s \in Sessions |-> NoAnalysis]
    /\ ix = [s \in Sessions |-> NoIndexCall]
    /\ qs = [s \in Sessions |-> NoQuickStart]
    /\ ad = [s \in Sessions |-> NoApiDocs]
    /\ tabs = [s \in Sessions |-> NoTabs]

InitAnalyze == active = {"s1"} /\ InitServer

NextAnalyze ==
    \E s \in Sessions :
        \/ ClickAnalyzeRejected(s, UrlUniverse)
        \/ ClickAnalyze(s, UrlUniverse)
        \/ GenerateFileTree(s)
        \/ GitPull(s)
        \/ GitClone(s)
        \/ IdxCheck(s)
        \/ IdxLoad(s)
        \/ IdxBuild(s)

SpecAnalyze == InitAnalyze /\ [][NextAnalyze]_vars

InitRace == active = Sessions /\ InitServer

NextRace ==
    \E s \in Sessions :
        \/ ClickAnalyze(s, RacedUrls)
        \/ GitPull(s)
        \/ GitClone(s)
        \/ IdxCheck(s)
        \/ IdxLoad(s)
        \/ IdxBuild(s)

SpecRace == InitRace /\ [][NextRace]_vars

---------------------------------------------------------------------------
(* The tabs of a session that holds any text of up to MaxTextLen           *)
(* characters as its guide or as its API documentation.                    *)

\* the texts a model can have answered
Texts == SeqsUpTo(TextChars, MaxTextLen)

InitMd ==
    /\ active = {"s1"}
    /\ fs = SmallRepoFiles
    /\ \E raw_text \in Texts, held \in {"quick_start_guide", "api_docs"} :
          ss = [s \in Sessions |->
                  IF s \in active
                  THEN [AnalyzedSession(<<"r", "e", "p", "o", "s", "/", "a", "p", "p">>, AnalyzedIndex(<<"a", "p", "p">>))
                          EXCEPT ![held] = Some(raw_text)]
                  ELSE FreshSession]
    /\ AfterAnalysisOf(<<"a", "p", "p">>)
    /\ pc = [s \in Sessions |-> "idle"]
    /\ qs = [s \in Sessions |-> NoQuickStart]
    /\ ad = [s \in Sessions |-> NoApiDocs]
    /\ tabs = [s \in Sessions |-> NoTabs]

NextMd == \E s \in Sessions : DrawTabs(s)

SpecMd == InitMd /\ [][NextMd]_vars

---------------------------------------------------------------------------
(* Properties of the classification and of the two walks.                  *)

\* the path both walks give a file: os.path.join(root, file)
FilePath(top, e) == PathJoin(WalkRoot(top, e.dir), e.name)

\* the files the loop of line 52 reaches in a session's guide run
VisitedByGuide(s) ==
    {e \in fs : ~RootIsSkipped(WalkRoot(Value(qs[s].repo_path), e.dir),
                               GuideSkippedDirs)}

\* every path filed under Source Code, and those filed under one language
SourceCodePaths(cat) ==
    UNION {Members(cat.SourceCode[i].files) : i \in DOMAIN cat.SourceCode}
SourceCodePathsOf(cat, lang) ==
    UNION {Members(cat.SourceCode[i].files) :
              i \in {j \in DOMAIN cat.SourceCode : cat.SourceCode[j].lang = lang}}

\* a documentation name: one of the three exact names, or a name that ends
\* in .md or .rst
IsDocumentationName(n) ==
    \/ n \in {<<"R", "E", "A", "D", "M", "E", ".", "m", "d">>, <<"C", "O", "N", "T", "R", "I", "B", "U", "T", "I", "N", "G", ".", "m", "d">>, <<"C", "H", "A", "N", "G", "E", "L", "O", "G", ".", "m", "d">>}
    \/ EndsWith(n, <<".", "m", "d">>)
    \/ EndsWith(n, <<".", "r", "s", "t">>)

\* the exact documentation and configuration names
ExactDocOrConfigNames ==
    {<<"R", "E", "A", "D", "M", "E", ".", "m", "d">>, <<"C", "O", "N", "T", "R", "I", "B", "U", "T", "I", "N", "G", ".", "m", "d">>, <<"C", "H", "A", "N", "G", "E", "L", "O", "G", ".", "m", "d">>,
     <<"r", "e", "q", "u", "i", "r", "e", "m", "e", "n", "t", "s", ".", "t", "x", "t">>, <<"p", "a", "c", "k", "a", "g", "e", ".", "j", "s", "o", "n">>, <<"D", "o", "c", "k", "e", "r", "f", "i", "l", "e">>, <<".", "e", "n", "v">>}

\* a configuration name: one of the four exact names, or a name that ends in
\* one of the configuration suffixes
IsConfigurationName(n) ==
    \/ n \in {<<"r", "e", "q", "u", "i", "r", "e", "m", "e", "n", "t", "s", ".", "t", "x", "t">>, <<"p", "a", "c", "k", "a", "g", "e", ".", "j", "s", "o", "n">>, <<"D", "o", "c", "k", "e", "r", "f", "i", "l", "e">>, <<".", "e", "n", "v">>}
    \/ \E suffix \in {<<".", "e", "n", "v">>, <<".", "y", "a", "m", "l">>, <<".", "y", "m", "l">>, <<".", "t", "o", "m", "l">>, <<".", "i", "n", "i">>, <<".", "c", "f", "g">>} :
          EndsWith(n, suffix)

\* C1: in every finished classification, each visited file with a
\* documentation name (README.md, CONTRIBUTING.md, CHANGELOG.md, or ending in
\* .md or .rst) is listed under Documentation and under no other category,
\* although .md and .rst are keys of EXTENSION_TO_LANGUAGE_MAP.
C1_DocumentationWins ==
    \A s \in Sessions :
        qs[s].repo_path # None =>
            \A e \in VisitedByGuide(s) :
                IsDocumentationName(e.name) =>
                    LET cat == qs[s].categorized
                        path == FilePath(Value(qs[s].repo_path), e)
                    IN  /\ path \in Members(cat.Documentation)
                        /\ path \notin Members(cat.Configuration)
                        /\ path \notin SourceCodePaths(cat)
                        /\ path \notin Members(cat.Other)

\* C1 witness: a classification that visited README.md and guide.rst, both
\* with an extension the language table knows, and listed both under
\* Documentation
C1_Witness ==
    \E s \in Sessions :
        /\ qs[s].repo_path # None
        /\ \E e1, e2 \in VisitedByGuide(s) :
              /\ e1.name = <<"R", "E", "A", "D", "M", "E", ".", "m", "d">>
              /\ e2.name = <<"g", "u", "i", "d", "e", ".", "r", "s", "t">>
              /\ InLanguageMap(SplitExt(e1.name))
              /\ InLanguageMap(SplitExt(e2.name))
              /\ {FilePath(Value(qs[s].repo_path), e1),
                  FilePath(Value(qs[s].repo_path), e2)}
                    \subseteq Members(qs[s].categorized.Documentation)

\* C2 as stated: each visited file whose extension is a key of the language
\* table and whose name is none of the seven exact documentation and
\* configuration names is listed under Source Code for the language of its
\* extension.
C2_AsStated ==
    \A s \in Sessions :
        qs[s].repo_path # None =>
            \A e \in VisitedByGuide(s) :
                (/\ InLanguageMap(SplitExt(e.name))
                 /\ e.name \notin ExactDocOrConfigNames) =>
                    FilePath(Value(qs[s].repo_path), e) \in
                        SourceCodePathsOf(qs[s].categorized,
                                          LanguageOf(SplitExt(e.name)))

\* C2 amended: each visited file whose extension is a key of the language
\* table and whose name matches no documentation or configuration rule,
\* exact name or suffix, is listed under Source Code for the language of its
\* extension and in no other category (app.py under python, main.go under
\* go).
C2_SourceCodeByLanguage ==
    \A s \in Sessions :
        qs[s].repo_path # None =>
            \A e \in VisitedByGuide(s) :
                (/\ InLanguageMap(SplitExt(e.name))
                 /\ ~IsDocumentationName(e.name)
                 /\ ~IsConfigurationName(e.name)) =>
                    LET cat == qs[s].categorized
                        path == FilePath(Value(qs[s].repo_path), e)
                    IN  /\ path \in SourceCodePathsOf(
                                        cat, LanguageOf(SplitExt(e.name)))
                        /\ \A i, j \in DOMAIN cat.SourceCode :
                              (/\ path \in Members(cat.SourceCode[i].files)
                               /\ path \in Members(cat.SourceCode[j].files))
                                 => i = j
                        /\ path \notin Members(cat.Documentation)
                        /\ path \notin Members(cat.Configuration)
                        /\ path \notin Members(cat.Other)
                        /\ e.name = <<"a", "p", "p", ".", "p", "y">> =>
                              path \in SourceCodePathsOf(cat, "python")
                        /\ e.name = <<"m", "a", "i", "n", ".", "g", "o">> =>
                              path \in SourceCodePathsOf(cat, "go")

\* C2 witness: a classification that visited app.py and main.go and listed
\* them under python and go
C2_Witness ==
    \E s \in Sessions :
        /\ qs[s].repo_path # None
        /\ \E e1, e2 \in VisitedByGuide(s) :
              /\ e1.name = <<"a", "p", "p", ".", "p", "y">>
              /\ e2.name = <<"m", "a", "i", "n", ".", "g", "o">>
              /\ FilePath(Value(qs[s].repo_path), e1) \in
                    SourceCodePathsOf(qs[s].categorized, "python")
              /\ FilePath(Value(qs[s].repo_path), e2) \in
                    SourceCodePathsOf(qs[s].categorized, "go")

\* a name no documentation, configuration or language-table rule matches
IsUnmatchedName(n) ==
    /\ ~IsDocumentationName(n)
    /\ ~IsConfigurationName(n)
    /\ ~InLanguageMap(SplitExt(n))

SkippedNamesOfApi ==
    {<<".", "g", "i", "t">>, <<"n", "o", "d", "e", "_", "m", "o", "d", "u", "l", "e", "s">>, <<"t", "a", "r", "g", "e", "t">>, <<"b", "u", "i", "l", "d">>, <<"d", "i", "s", "t">>}
SkippedNamesOfGuide == SkippedNamesOfApi \cup {<<"_", "_", "p", "y", "c", "a", "c", "h", "e", "_", "_">>}

\* a file with a directory of one of these names somewhere above it
IsBelowNamed(e, names) == \E i \in DOMAIN e.dir : e.dir[i] \in names

\* C4: no file with a directory named .git, node_modules, target, build or
\* dist (or __pycache__, for the guide walk) anywhere above it is listed in a
\* category of the classification or in the API-doc source file list.
C4_ExclusionIsTransitive ==
    \A s \in Sessions :
        /\ qs[s].repo_path # None =>
              \A e \in fs :
                  IsBelowNamed(e, SkippedNamesOfGuide) =>
                      FilePath(Value(qs[s].repo_path), e)
                          \notin ListedPaths(qs[s].categorized)
        /\ ad[s].repo_path # None =>
              \A e \in fs :
                  IsBelowNamed(e, SkippedNamesOfApi) =>
                      FilePath(Value(ad[s].repo_path), e)
                          \notin Members(ad[s].source_files)

\* C4 witness: both walks ran over a repository with a file two levels
\* below a directory named build and a file outside, and both list the
\* second one only
C4_Witness ==
    \E s \in Sessions :
        /\ qs[s].repo_path # None
        /\ ad[s].repo_path # None
        /\ \E e1, e2 \in fs :
              /\ e1.dir = <<<<"s", "r", "c">>, <<"b", "u", "i", "l", "d">>, <<"o", "u", "t">>>>
              /\ InLanguageMap(SplitExt(e1.name))
              /\ FilePath(Value(qs[s].repo_path), e2)
                    \in ListedPaths(qs[s].categorized)
              /\ FilePath(Value(ad[s].repo_path), e2)
                    \in Members(ad[s].source_files)
              /\ FilePath(Value(qs[s].repo_path), e1)
                    \notin ListedPaths(qs[s].categorized)
              /\ FilePath(Value(ad[s].repo_path), e1)
                    \notin Members(ad[s].source_files)

---------------------------------------------------------------------------
(* Properties of the guide pipeline and of the API-doc run.                *)

\* the llm.predict calls of a generate_quick_start call
PredictCalls(q) ==
    SelectSeq(q.llm_calls, LAMBDA c : c.call = "predict")

\* the selection call of a generate_quick_start call answered
SelectionAnswered(q) == q.llm_calls # << >> /\ q.llm_calls[1].ok

\* the selection call of a generate_quick_start call raised
SelectionRaised(q) == q.llm_calls # << >> /\ ~q.llm_calls[1].ok

\* C6: whatever key files are selected and whichever of their router
\* queries raise, the call goes on: the queries made are one per key file,
\* in selection order; each has its section, a summary if the query
\* answered and an error note if it raised; and a call that has ended after
\* a selection made the synthesis call, once, with the sections of all key
\* files in selection order.
C6_PartialFailureIsolation ==
    \A s \in Sessions :
        LET q == qs[s]
        IN  /\ Len(q.queries) <= Len(q.key_files)
            /\ Len(q.summaries) = Len(q.queries)
            /\ Len(q.outcomes) = Len(q.queries)
            /\ \A i \in DOMAIN q.queries :
                  /\ q.queries[i].file = q.key_files[i].file_path
                  /\ q.summaries[i].file = q.key_files[i].file_path
                  /\ q.outcomes[i] => q.summaries[i].body = "Summary"
                  /\ ~q.outcomes[i] => q.summaries[i].body = "Error"
            /\ (SelectionAnswered(q) /\ pc[s] = "idle") =>
                  /\ Len(q.queries) = Len(q.key_files)
                  /\ Len(PredictCalls(q)) = 1
                  /\ PredictCalls(q)[1].summaries = q.summaries
                  /\ q.result # None
            /\ PredictCalls(q) # << >> => Len(q.summaries) = Len(q.key_files)

\* C6 witness: a call that selected MaxKeyFiles key files, saw a query
\* answer and a later one raise, and made the synthesis call with a summary
\* and an error note
C6_Witness ==
    \E s \in Sessions :
        LET q == qs[s]
        IN  /\ Len(q.key_files) = MaxKeyFiles
            /\ Len(PredictCalls(q)) = 1
            /\ \E i, j \in DOMAIN q.outcomes :
                  /\ i < j
                  /\ q.outcomes[i] /\ ~q.outcomes[j]
                  /\ PredictCalls(q)[1].summaries[i].body = "Summary"
                  /\ PredictCalls(q)[1].summaries[j].body = "Error"

\* C7: a selection call that raises ends the call with the selection error
\* message as its result, which the session shows, and with no router query
\* and no synthesis call made; a synthesis call that raises ends it with
\* the synthesis error message; no call ends by an exception, and none
\* returns anything but one of the two messages or the guide synthesized
\* from the sections of all key files.
C7_ErrorsAreReturned ==
    \A s \in Sessions :
        LET q == qs[s]
        IN  /\ q.raised = None
            /\ SelectionRaised(q) =>
                  /\ q.result = Some(SelectError)
                  /\ ss[s].quick_start_guide = Some(SelectError)
                  /\ q.queries = << >>
                  /\ PredictCalls(q) = << >>
                  /\ pc[s] = "idle"
            /\ (PredictCalls(q) # << >> /\ ~PredictCalls(q)[1].ok) =>
                  /\ q.result = Some(SynthesisError)
                  /\ ss[s].quick_start_guide = Some(SynthesisError)
            /\ (q.repo_path # None /\ pc[s] = "idle") => q.result # None
            /\ q.result \in
                  {None, Some(SelectError), Some(SynthesisError), Some(FinalGuide)}
            /\ q.result = Some(FinalGuide) =>
                  /\ Len(PredictCalls(q)) = 1
                  /\ PredictCalls(q)[1].ok
                  /\ Len(PredictCalls(q)[1].summaries) = Len(q.key_files)

\* C7 witness: a call over a classification that lists files ended on a
\* selection call that raised, with no query made, and the session shows
\* the selection error
C7_Witness ==
    \E s \in Sessions :
        /\ SelectionRaised(qs[s])
        /\ ListedPaths(qs[s].categorized) # {}
        /\ qs[s].queries = << >>
        /\ pc[s] = "idle"
        /\ ss[s].quick_start_guide = Some(SelectError)

\* C8: when reading or extracting a source file raises, the exception ends
\* the API-doc run: nothing is returned, the files after the failing one are
\* never read, the session's api_docs is what it was before the click, and
\* the script is back waiting for a click.
C8_NoIsolationInApiDocs ==
    \A s \in Sessions :
        LET a == ad[s]
        IN  a.raised # None =>
              /\ a.result = None
              /\ pc[s] = "idle"
              /\ ss[s].api_docs = a.api_docs_before
              /\ Len(a.api_docs_str_list) = Len(a.reads) - 1
              /\ \A i \in DOMAIN a.reads : a.reads[i] = a.source_files[i]

\* C8 witness: a run over three source files, started while the session
\* held the documents of an earlier run, processed the first file, raised
\* on the second and left the third unread and the documents in place
C8_Witness ==
    \E s \in Sessions :
        LET a == ad[s]
        IN  /\ a.raised # None
            /\ Len(a.source_files) = 3
            /\ Len(a.reads) = 2
            /\ Len(a.api_docs_str_list) = 1
            /\ a.api_docs_before # None
            /\ Value(a.api_docs_before).kind = "api_docs"
            /\ ss[s].api_docs = a.api_docs_before

---------------------------------------------------------------------------
(* Properties of the Analyze handler: clone_or_pull_repo and               *)
(* get_or_create_index.                                                    *)

\* the git operations of a call that were of one kind
OpsOf(a, kind) == {i \in DOMAIN a.git_ops : a.git_ops[i].op = kind}

\* a clone_or_pull_repo call that has returned
CallReturned(a) == a.returned # None

\* C5: a get_or_create_index call that found the storage entry of its
\* repository name goes on to load only: it reads no file of the
\* repository, parses no language, builds no index and persists nothing,
\* and what it returns is the index the entry holds.
C5_LoadOnlyWhenStored ==
    \A s \in Sessions :
        ix[s].found = Some(TRUE) =>
            /\ pc[s] \in {"idx_load", "idle"}
            /\ ix[s].file_reads = {}
            /\ ix[s].parsed = {}
            /\ ix[s].init_failed = {} /\ ix[s].parse_failed = {}
            /\ ~ix[s].built
            /\ ~ix[s].persisted
            /\ ix[s].raised = None
            /\ ix[s].returned # None =>
                  Value(ix[s].returned) = storage[Value(ix[s].repo_name)]

\* C5 witness: a call that found the entry and returned its index, built
\* from an older revision than the one the clone now holds
C5_Witness ==
    \E s \in Sessions :
        /\ ix[s].found = Some(TRUE)
        /\ ix[s].returned # None
        /\ Value(ix[s].returned).rev < local[Value(ix[s].repo_name)].rev

StripGitSuffix(s) ==
    IF EndsWith(s, <<".", "g", "i", "t">>) THEN SubSeq(s, 1, Len(s) - 4) ELSE s

\* C10 as stated: the directory name a call derives is the final path
\* segment of its URL without a trailing ".git".
C10_AsStated ==
    \A s \in Sessions :
        an[s].repo_name # None =>
            Value(an[s].repo_name) =
                StripGitSuffix(LastSegment(UrlPath(Value(an[s].repo_url))))

---------------------------------------------------------------------------
(* Properties of the Analyze handler's URL test.                           *)

\* urlparse(url).netloc: what stands between "//" and the next "/", "?"
\* or "#" after the scheme
UrlHost(url) ==
    LET colon == Find(url, ":")
        rest == IF colon > 1 /\ FindAny(url, {"/", "?", "#"}) > colon
                THEN SubSeq(url, colon + 1, Len(url)) ELSE url
    IN  IF StartsWith(rest, <<"/", "/">>)
        THEN LET r == SubSeq(rest, 3, Len(rest))
                 cut == FindAny(r, {"/", "?", "#"})
             IN  IF cut = 0 THEN r ELSE SubSeq(r, 1, cut - 1)
        ELSE << >>

\* an HTTPS URL of the host github.com
IsGitHubUrl(url) ==
    /\ StartsWith(url, <<"h", "t", "t", "p", "s", ":", "/", "/">>)
    /\ UrlHost(url) \in {<<"g", "i", "t", "h", "u", "b", ".", "c", "o", "m">>, <<"w", "w", "w", ".", "g", "i", "t", "h", "u", "b", ".", "c", "o", "m">>}

\* C11 as stated: a click is turned away exactly when its URL is no GitHub
\* HTTPS URL, so that a URL clone_or_pull_repo was called with is one; and
\* a click turned away made no call of clone_or_pull_repo or of
\* get_or_create_index.
C11_AsStated ==
    \A s \in Sessions :
        an[s].repo_url # None =>
            /\ an[s].rejected <=> ~IsGitHubUrl(Value(an[s].repo_url))
            /\ an[s].rejected =>
                  /\ an[s].git_ops = << >>
                  /\ an[s].returned = None
                  /\ ix[s] = NoIndexCall

---------------------------------------------------------------------------
(* Properties of clean_markdown_output.                                    *)

\* the texts the tabs of a session show as guide and as API documentation
ShownTexts(s) ==
    {Value(t) : t \in {tabs[s].quick_start, tabs[s].api_docs} \ {None}}

\* C12 as stated: cleaning a text that was cleaned gives the same text:
\* what a tab shows is a fixed point of clean_markdown_output.
C12_AsStated ==
    \A s \in Sessions :
        \A shown \in ShownTexts(s) : clean_markdown_output(shown) = shown

---------------------------------------------------------------------------
(* Properties of the key files of the guide pipeline.                      *)

\* C13 as stated: the key files of a generate_quick_start call, the router
\* queries it makes and the summary sections it writes are all for paths
\* that the classification of the same call listed.
C13_AsStated ==
    \A s \in Sessions :
        LET q == qs[s]
            listed == ListedPaths(q.categorized)
        IN  /\ \A i \in DOMAIN q.key_files : q.key_files[i].file_path \in listed
            /\ \A i \in DOMAIN q.queries : q.queries[i].file \in listed
            /\ \A i \in DOMAIN q.summaries : q.summaries[i].file \in listed

---------------------------------------------------------------------------
(* Properties of the failures of clone_or_pull_repo.                       *)

---------------------------------------------------------------------------
(* Properties of the session state across Analyze clicks.                  *)

\* the repository name an engine's index was built for
RepoOfRouter(query_engine) == query_engine.router_over.repo
RepoOfAgent(chat_engine) == RepoOfRouter(chat_engine.agent_over)

\* C15 as stated: a session at rest whose chat_engine is set holds as
\* repo_path the local path of the repository its engines were built for,
\* and its chat_engine was built over its query_engine.
C15_AsStated ==
    \A s \in Sessions :
        (pc[s] = "idle" /\ ss[s].chat_engine # None) =>
            /\ ss[s].repo_path # None
            /\ ss[s].query_engine # None
            /\ Value(ss[s].chat_engine).agent_over = Value(ss[s].query_engine)
            /\ BaseName(Value(ss[s].repo_path)) =
                  RepoOfAgent(Value(ss[s].chat_engine))

\* the messages a session shows that are about a repository
ReadyMessagesOf(s) ==
    {ss[s].messages[i] : i \in DOMAIN ss[s].messages} \ {WelcomeMessage}

\* C16 as stated: once a session has clicked Analyze with an accepted URL,
\* what it holds is of that analysis: no guide and no API documentation,
\* no file tree but one of the repository of that click, and no message
\* about a repository but the ready message of that click.
C16_AsStated ==
    \A s \in Sessions :
        (an[s].repo_url # None /\ ~an[s].rejected) =>
            /\ ss[s].quick_start_guide = None
            /\ ss[s].api_docs = None
            /\ ss[s].file_tree # None =>
                  Value(ss[s].file_tree).heading = Value(an[s].repo_name)
            /\ ReadyMessagesOf(s) \subseteq
                  {ReadyMessage(Value(an[s].local_repo_path))}

---------------------------------------------------------------------------
(* Properties of the index storage.                                        *)

\* C17 as stated: an entry of the storage, once there, stays as it was
\* written: no step deletes it or writes it again.
C17_AsStated ==
    [][\A n \in DOMAIN storage :
          n \in DOMAIN storage' /\ storage'[n] = storage[n]]_vars

\* C17 amended: no step deletes an entry; a call whose test found the
\* entry returns the index the entry holds, whatever revision the clone
\* has reached, and writes nothing; and an entry is written again only by
\* the build of a call whose test, made before the entry was there, found
\* none.
C17_NeverInvalidated ==
    [][/\ DOMAIN storage \subseteq DOMAIN storage'
       /\ \A s \in Sessions :
             (pc[s] = "idx_load" /\ pc'[s] # "idx_load") =>
                 /\ ix[s].found = Some(TRUE)
                 /\ ix'[s].returned = Some(storage[Value(ix[s].repo_name)])
                 /\ ~ix'[s].persisted
                 /\ storage' = storage
       /\ \A n \in DOMAIN storage :
             storage'[n] # storage[n] =>
                 \E s \in Sessions :
                    /\ pc[s] = "idx_build"
                    /\ ix[s].repo_name = Some(n)
                    /\ ix[s].found = Some(FALSE)
                    /\ ix'[s].persisted]_vars

\* C17 witness: after one session's build persisted the entry and a pull
\* moved the clone on, another session's call found the entry and returned
\* the index of the older revision
C17_Witness ==
    \E s, t \in Sessions :
        /\ s # t
        /\ ix[t].persisted
        /\ ix[s].found = Some(TRUE)
        /\ ix[s].repo_name = ix[t].repo_name
        /\ ix[s].returned = ix[t].returned
        /\ Value(ix[s].returned).rev < local[Value(ix[s].repo_name)].rev

\* the documents a finished build kept: those of the languages that
\* neither failed to load their splitter nor failed to parse
KeptDocuments(call) ==
    {d \in call.file_reads :
        DocLanguage(d) \notin call.init_failed \cup call.parse_failed}

\* C18: a build skips the languages that fail and goes on. The step that
\* ends a build either kept no document, and then raises and leaves the
\* storage as it was, or builds, persists and returns the index of exactly
\* the documents kept; so every entry of the storage holds at least one
\* node, and a call whose test finds no entry for its repository, as after
\* a build that raised, takes the build path.
C18_SkipsAndBuildsOrRaises ==
    [][/\ \A s \in Sessions :
             (pc[s] = "idx_build" /\ pc'[s] # "idx_build") =>
                 LET call == ix'[s]
                     name == Value(call.repo_name)
                 IN  IF KeptDocuments(call) = {}
                     THEN /\ call.raised = Some("ValueError")
                          /\ ~call.built /\ ~call.persisted
                          /\ call.returned = None
                          /\ storage' = storage
                     ELSE /\ call.raised = None
                          /\ call.built /\ call.persisted
                          /\ storage'[name].nodes = KeptDocuments(call)
                          /\ call.returned = Some(storage'[name])
       /\ \A n \in DOMAIN storage' : storage'[n].nodes # {}
       /\ \A s \in Sessions :
             (/\ pc[s] = "idx_check" /\ pc'[s] # "idx_check"
              /\ ss[s].repo_path # None
              /\ BaseName(Value(ss[s].repo_path)) \notin DOMAIN storage) =>
                 pc'[s] = "idx_build"]_vars

\* C18 witness: a session whose first build raised for want of nodes
\* clicked again, found no entry and built again, and this build skipped a
\* language and persisted the index of the others
C18_Witness ==
    \E s \in Sessions :
        LET call == ix[s]
        IN  /\ an[s].clicks = 2
            /\ an[s].existed = Some(TRUE)
            /\ call.found = Some(FALSE)
            /\ call.init_failed \cup call.parse_failed # {}
            /\ call.persisted
            /\ storage[Value(call.repo_name)].nodes = KeptDocuments(call)
            /\ KeptDocuments(call) # call.file_reads

---------------------------------------------------------------------------
(* Properties of concurrent analyses.                                      *)

\* C19: no step of an analysis waits for another session. A session that
\* has tested the directory can clone or pull, a session whose clone or
\* pull returned can test the storage, and a session that has tested the
\* storage can load or build and persist, whatever the other sessions
\* have tested and not yet acted upon.
C19_NoStepWaits ==
    \A s \in Sessions :
        /\ pc[s] = "git_clone" => ENABLED GitClone(s)
        /\ pc[s] = "git_pull" => ENABLED GitPull(s)
        /\ pc[s] = "idx_check" => ENABLED IdxCheck(s)
        /\ pc[s] = "idx_load" => ENABLED IdxLoad(s)
        /\ pc[s] = "idx_build" => ENABLED IdxBuild(s)

\* C19 witness: two sessions analyzing one repository both found no
\* storage entry, and both built an index and persisted it to the same
\* storage path
C19_Witness ==
    \E s, t \in Sessions :
        /\ s # t
        /\ ix[s].storage_path # None
        /\ ix[s].storage_path = ix[t].storage_path
        /\ ix[s].found = Some(FALSE) /\ ix[t].found = Some(FALSE)
        /\ ix[s].persisted /\ ix[t].persisted

\* C20: both walks leave a file out exactly when a directory above it,
\* below the repository root, has a name that is a member of the walk's
\* exclusion list. Every other file that the classification keeps is listed
\* in a category, and every other file with a mapped extension is a source
\* file of the API docs.
C20_AsStated ==
    \A s \in Sessions :
        /\ qs[s].repo_path # None =>
              \A e \in fs :
                  Category(e.name, e.size, e.stat_ok) # <<"dropped">> =>
                      (FilePath(Value(qs[s].repo_path), e)
                           \in ListedPaths(qs[s].categorized)
                       <=> ~IsBelowNamed(e, Members(GuideSkippedDirs)))
        /\ ad[s].repo_path # None =>
              \A e \in fs :
                  InLanguageMap(SplitExt(e.name)) =>
                      (FilePath(Value(ad[s].repo_path), e)
                           \in Members(ad[s].source_files)
                       <=> ~IsBelowNamed(e, Members(ApiSkippedDirs)))

=============================================================================
